---- MODULE Spec2Model ----
(***************************************************************************)
(* PodPico transfer core: FileManager (episode downloads), UsbManager      *)
(* (device transfers and removals) and the device-status commands of       *)
(* commands.rs, modelled as state machines.  Every async fn is cut at its  *)
(* await points: one action per stretch of code between two awaits, so     *)
(* that concurrent calls interleave the way tokio tasks can.               *)
(***************************************************************************)
EXTENDS Integers, Sequences, FiniteSets, TLC

VARIABLES
    downloads,     \* FileManager.downloads: episode_id -> DownloadProgress
    files,         \* local disk: <<podcast_id, filename>> -> content (bytes)
    dirs,          \* podcast directories that exist under download_directory
    httpRequests,  \* number of HTTP GETs sent so far
    pc,            \* position of each download_episode call
    call,          \* arguments of each download_episode call
    loc,           \* locals of each download_episode call
    ret,           \* value returned by each download_episode call
    calls,         \* number of download_episode calls started
    transfers,     \* UsbManager.transfers: transfer key -> TransferProgress
    sources,       \* local files offered for transfer: path -> content
    device,        \* the device at each device path: root, disk entry, contents
    tpc,           \* position of each transfer_file call
    tcall,         \* arguments of each transfer_file call
    tloc,          \* locals of each transfer_file call
    tret,          \* value returned by each transfer_file call
    tcalls,        \* number of transfer_file calls started
    episodes,      \* the episodes table: id -> on_device, local_file_path
    report,        \* the last report a device-status command returned
    commands,      \* number of device-status commands and table updates run
    previous,      \* the command that ran before the one report is of
    removal,       \* the last remove_file call: its arguments and its result
    removals,      \* number of remove_file calls
    deletion,      \* the last delete_episode call: its arguments and its result
    deletions,     \* number of delete_episode calls
    mutexes,       \* holder of the RSS_MANAGER, FILE_MANAGER and USB_MANAGER mutexes
    managers,      \* the global mutexes whose Option is Some(manager)
    held,          \* holder of each progress-table mutex at the await points
    dbLock,        \* holder of the DATABASE mutex of commands.rs
    cpc,           \* position of each command invocation
    ccall,         \* name and arguments of each command invocation
    cret           \* value returned by each command invocation

dlVars == <<downloads, files, dirs, httpRequests, pc, call, loc, ret, calls>>
tfVars == <<transfers, sources, device, tpc, tcall, tloc, tret, tcalls>>
\* The transfer engine's own state; the device is shared with the commands.
usbVars == <<transfers, sources, tpc, tcall, tloc, tret, tcalls>>
cmdVars == <<episodes, report, commands, previous>>
delVars == <<deletion, deletions>>
lockVars == <<mutexes, managers>>
rmVars == <<removal, removals, delVars, lockVars>>
appVars == <<held, dbLock, cpc, ccall, cret>>
vars == <<dlVars, tfVars, cmdVars, rmVars, appVars>>

(***************************************************************************)
(* Bounds of the model.                                                    *)
(***************************************************************************)
MaxCalls == 2      \* download_episode calls per behaviour
MaxBody == 2       \* bytes a server streams in one response
MaxTransfers == 2  \* transfer_file calls per behaviour
MaxSize == 2       \* bytes of a source file, and of a device's free space
MaxRemovals == 1   \* remove_file calls per behaviour
MaxDeletions == 1  \* delete_episode calls per behaviour
MaxCommands == 3   \* device-status commands and table updates per behaviour

Tasks == {"t1"}
Episodes == {1, 2}
Podcasts == {1}

\* URLs are character sequences; the second one has no '.' in its last segment.
Urls == { <<"h", "/", "e", ".", "m">>, <<"h", "/", "f">> }

\* Seconds read off the clock since an operation started: none yet, or some.
Elapsed == {0, 1}

\* Content a test or an earlier run left on disk, and the byte a server sends.
ExistingContent == <<"x">>
BodyByte == "b"

(***************************************************************************)
(* Numbers: f64 percentages and speeds are kept as exact fractions         *)
(* <<numerator, denominator>> in lowest terms.                             *)
(***************************************************************************)
RECURSIVE Gcd(_, _)
Gcd(a, b) == IF b = 0 THEN a ELSE Gcd(b, a % b)

Ratio(n, d) == IF n = 0 THEN <<0, 1>> ELSE <<n \div Gcd(n, d), d \div Gcd(n, d)>>
RatLt(p, q) == p[1] * q[2] < q[1] * p[2]
Zero == Ratio(0, 1)
Hundred == Ratio(100, 1)

NoEta == [some |-> FALSE, val |-> 0]
SomeEta(v) == [some |-> TRUE, val |-> v]

\* (remaining as f64 / speed) as u64
EtaOf(remaining, speed) == SomeEta((remaining * speed[2]) \div speed[1])

\* u64::saturating_sub
SaturatingSub(a, b) == IF a >= b THEN a - b ELSE 0

(***************************************************************************)
(* DownloadStatus / TransferStatus and PodPicoError.                       *)
(***************************************************************************)
Status(tag) == [tag |-> tag, reason |-> ""]
Pending == Status("Pending")
InProgress == Status("InProgress")
Completed == Status("Completed")
Cancelled == Status("Cancelled")
Failed(reason) == [tag |-> "Failed", reason |-> reason]

Terminal(status) == status.tag \in {"Completed", "Failed", "Cancelled"}

NoError == [kind |-> "", msg |-> ""]
Error(kind, msg) == [kind |-> kind, msg |-> msg]

\* #[error("...")] of PodPicoError: the text of e.to_string()
ErrorPrefix(kind) ==
    CASE kind = "NetworkError" -> "Network error: "
      [] kind = "Io" -> "IO error: "
      [] kind = "IoError" -> "IO error: "
      [] kind = "UsbDeviceNotFound" -> "USB device not found: "
      [] kind = "FileTransferFailed" -> "File transfer failed: "
      [] OTHER -> "Generic error: "

to_string(e) == ErrorPrefix(e.kind) \o e.msg

\* What a call returned; requests counts the HTTP GETs the call sent.
NoRet == [kind |-> "None", path |-> <<>>, err |-> NoError, requests |-> 0]
Ok(path) == [kind |-> "Ok", path |-> path, err |-> NoError, requests |-> 0]
Err(e) == [kind |-> "Err", path |-> <<>>, err |-> e, requests |-> 0]

(***************************************************************************)
(* FileManager                                                             *)
(***************************************************************************)
\* Position of the last '/' in url, 0 when there is none.
LastSlash(url, i) ==
    LET slashes == {k \in 1..i : url[k] = "/"}
    IN  IF slashes = {} THEN 0 ELSE CHOOSE k \in slashes : \A j \in slashes : j <= k

Contains(s, c) == \E i \in 1..Len(s) : s[i] = c

MaxFilenameLen == 255

\* format!("{}.mp3", episode_id)
EpisodeIdMp3(episode_id) == <<ToString(episode_id), ".", "m", "p", "3">>

\* A str is UTF-8: the characters of the model that take two bytes, and
\* str::len(), which counts bytes.
TwoByteChars == {"é"}
Utf8Len(ch) == IF ch \in TwoByteChars THEN 2 ELSE 1

ByteLen(s) ==
    Cardinality({i \in 1..Len(s) : Utf8Len(s[i]) = 1})
       + 2 * Cardinality({i \in 1..Len(s) : Utf8Len(s[i]) = 2})

\* Position of the first '?' in s, Len(s) + 1 when there is none.
FirstQuery(s, i) ==
    LET marks == {k \in i..Len(s) : s[k] = "?"}
    IN  IF marks = {} THEN Len(s) + 1 ELSE CHOOSE k \in marks : \A j \in marks : k <= j

\* A derivation that would cut the query string off the last segment.
extract_filename_from_url_WithoutQuery(url, episode_id) ==
    LET segment == SubSeq(url, LastSlash(url, Len(url)) + 1, Len(url))
        filename == SubSeq(segment, 1, FirstQuery(segment, 1) - 1)
    IN  IF Contains(filename, ".") /\ ByteLen(filename) < MaxFilenameLen
        THEN filename
        ELSE EpisodeIdMp3(episode_id)

extract_filename_from_url(url, episode_id) ==
    LET filename == SubSeq(url, LastSlash(url, Len(url)) + 1, Len(url))
    IN  IF Contains(filename, ".") /\ ByteLen(filename) < MaxFilenameLen
        THEN filename
        ELSE EpisodeIdMp3(episode_id)

\* podcast_dir.join(&filename)
FilePath(c) == <<c.podcast_id, extract_filename_from_url(c.episode_url, c.episode_id)>>

Exists(path) == path \in DOMAIN files

\* HashMap::insert
Insert(map, key, value) ==
    [k \in DOMAIN map \cup {key} |-> IF k = key THEN value ELSE map[k]]

DownloadProgress(episode_id, total, downloaded, percentage, speed, eta, status) ==
    [episode_id |-> episode_id, total_bytes |-> total, downloaded_bytes |-> downloaded,
     percentage |-> percentage, speed_bytes_per_sec |-> speed, eta_seconds |-> eta,
     status |-> status]

\* A short circuit that would leave the entry as a fetch not yet begun.
AlreadyDownloadedEntry_Pending(episode_id) ==
    DownloadProgress(episode_id, 0, 0, Zero, Zero, NoEta, Pending)

\* The entry download_episode records when the file is already on disk.
AlreadyDownloadedEntry(episode_id) ==
    DownloadProgress(episode_id, 0, 0, Hundred, Zero, NoEta, Completed)

\* The entry download_episode records before it starts a fetch.
PendingEntry(episode_id) ==
    DownloadProgress(episode_id, 0, 0, Zero, Zero, NoEta, Pending)

update_download_status(map, episode_id, status, percentage, downloaded, total) ==
    IF episode_id \in DOMAIN map
    THEN LET p == map[episode_id]
             eta == IF RatLt(Zero, percentage) /\ RatLt(percentage, Hundred)
                       /\ RatLt(Zero, p.speed_bytes_per_sec)
                    THEN EtaOf(SaturatingSub(total, downloaded), p.speed_bytes_per_sec)
                    ELSE p.eta_seconds
         IN  [map EXCEPT ![episode_id] =
                 [p EXCEPT !.status = status, !.percentage = percentage,
                           !.downloaded_bytes = downloaded, !.total_bytes = total,
                           !.eta_seconds = eta]]
    ELSE map

update_download_status_with_speed(map, episode_id, status, percentage, downloaded, total, speed) ==
    IF episode_id \in DOMAIN map
    THEN LET p == map[episode_id]
             eta == IF RatLt(Zero, percentage) /\ RatLt(percentage, Hundred)
                       /\ RatLt(Zero, speed)
                    THEN EtaOf(SaturatingSub(total, downloaded), speed)
                    ELSE p.eta_seconds
         IN  [map EXCEPT ![episode_id] =
                 [p EXCEPT !.status = status, !.percentage = percentage,
                           !.downloaded_bytes = downloaded, !.total_bytes = total,
                           !.speed_bytes_per_sec = speed, !.eta_seconds = eta]]
    ELSE Insert(map, episode_id,
                DownloadProgress(episode_id, total, downloaded, percentage, speed,
                    IF RatLt(Zero, percentage) /\ RatLt(percentage, Hundred)
                       /\ RatLt(Zero, speed)
                    THEN EtaOf(SaturatingSub(total, downloaded), speed)
                    ELSE NoEta,
                    status))

\* The progress-table mutexes.  A state of the model is a state in which every
\* task is at an await: held says who holds a guard across that await.
NoHolder == ""

\* The global mutexes of commands.rs, lines 90-93, in the order of their
\* declaration; DATABASE's holder is dbLock.
ManagerNames == {"DATABASE", "RSS_MANAGER", "FILE_MANAGER", "USB_MANAGER"}
NoMutexHeld == [m \in ManagerNames \ {"DATABASE"} |-> NoHolder]
NoneHeld == [m \in {"downloads", "transfers"} |-> NoHolder]

\* self.downloads.lock().await or self.transfers.lock().await has returned;
\* the guard is dropped before the stretch ends, so held is left as it is.
Locked(m) == held[m] = NoHolder

NoCall == [episode_url |-> <<>>, episode_id |-> 0, podcast_id |-> 0]
NoLoc == [total_size |-> 0, downloaded |-> 0, err |-> NoError, requests |-> 0]

(***************************************************************************)
(* FileManager::download_episode, one action per stretch between awaits.   *)
(***************************************************************************)
SetPc(t, p) == pc' = [pc EXCEPT ![t] = p]
Return(t, r) == /\ ret' = [ret EXCEPT ![t] = [r EXCEPT !.requests = loc[t].requests]]
                /\ loc' = [loc EXCEPT ![t] = NoLoc]
                /\ SetPc(t, "done")

\* Lines 61-72: a call of download_episode begins.
DlStart(t) ==
    /\ pc[t] \in {"idle", "done"}
    /\ calls < MaxCalls
    /\ calls' = calls + 1
    /\ \E url \in Urls, episode_id \in Episodes, podcast_id \in Podcasts :
         call' = [call EXCEPT ![t] = [episode_url |-> url, episode_id |-> episode_id,
                                      podcast_id |-> podcast_id]]
    /\ loc' = [loc EXCEPT ![t] = NoLoc]
    /\ ret' = [ret EXCEPT ![t] = NoRet]
    /\ SetPc(t, "mkdir")
    /\ UNCHANGED <<downloads, files, dirs, httpRequests>>
    /\ UNCHANGED <<tfVars, cmdVars, rmVars, appVars>>

\* Lines 73-82: create the podcast directory, derive the path, test existence.
DlCreateDir(t) ==
    /\ pc[t] = "mkdir"
    /\ \/ \* fs::create_dir_all(&podcast_dir).await? fails
          /\ call[t].podcast_id \notin dirs
          /\ Return(t, Err(Error("Io", "create_dir_all")))
          /\ UNCHANGED dirs
       \/ /\ dirs' = dirs \cup {call[t].podcast_id}
          /\ IF Exists(FilePath(call[t]))
             THEN SetPc(t, "already")
             ELSE SetPc(t, "pending")
          /\ UNCHANGED <<ret, loc>>
    /\ UNCHANGED <<downloads, files, httpRequests, call, calls>>
    /\ UNCHANGED <<tfVars, cmdVars, rmVars, appVars>>

\* Lines 83-106: the file is already there.
DlAlreadyDownloaded(t) ==
    /\ pc[t] = "already"
    /\ Locked("downloads")
    /\ downloads' = Insert(downloads, call[t].episode_id,
                           AlreadyDownloadedEntry(call[t].episode_id))
    /\ Return(t, Ok(FilePath(call[t])))
    /\ UNCHANGED <<files, dirs, httpRequests, call, calls>>
    /\ UNCHANGED <<tfVars, cmdVars, rmVars, appVars>>

\* Lines 108-122: register the Pending entry.
DlPending(t) ==
    /\ pc[t] = "pending"
    /\ Locked("downloads")
    /\ downloads' = Insert(downloads, call[t].episode_id, PendingEntry(call[t].episode_id))
    /\ SetPc(t, "space")
    /\ UNCHANGED <<files, dirs, httpRequests, call, loc, ret, calls>>
    /\ UNCHANGED <<tfVars, cmdVars, rmVars, appVars>>

\* Lines 124-125 and check_disk_space: write and delete the sentinel file.
DlCheckDiskSpace(t) ==
    /\ pc[t] = "space"
    /\ \/ /\ SetPc(t, "inprogress")
          /\ UNCHANGED <<ret, loc>>
       \/ \* self.check_disk_space(..).await? returns the error as it is
          Return(t, Err(Error("IoError", "Insufficient disk space or permissions")))
    /\ UNCHANGED <<downloads, files, dirs, httpRequests, call, calls>>
    /\ UNCHANGED <<tfVars, cmdVars, rmVars, appVars>>

\* Lines 171-173: download_with_progress marks the entry InProgress.
DlInProgress(t) ==
    /\ pc[t] = "inprogress"
    /\ Locked("downloads")
    /\ downloads' = update_download_status(downloads, call[t].episode_id,
                                           InProgress, Zero, 0, 0)
    /\ SetPc(t, "send")
    /\ UNCHANGED <<files, dirs, httpRequests, call, loc, ret, calls>>
    /\ UNCHANGED <<tfVars, cmdVars, rmVars, appVars>>

Fail(t, e) == /\ loc' = [loc EXCEPT ![t].err = e]
              /\ SetPc(t, "failed")

\* A failure of the request itself: the GET was sent.
FailSent(t, e) == /\ loc' = [loc EXCEPT ![t].err = e, ![t].requests = @ + 1]
                  /\ SetPc(t, "failed")

\* A request that would open the destination before it looks at the status.
DlSend_CreatingFirst(t) ==
    /\ pc[t] = "send"
    /\ httpRequests' = httpRequests + 1
    /\ \/ /\ FailSent(t, Error("NetworkError", "Failed to start download"))
          /\ UNCHANGED files
       \/ /\ FailSent(t, Error("NetworkError", "HTTP error"))
          /\ files' = Insert(files, FilePath(call[t]), <<>>)
       \/ \E content_length \in 0..MaxBody :
             /\ loc' = [loc EXCEPT ![t].total_size = content_length,
                                   ![t].requests = @ + 1]
             /\ SetPc(t, "create")
             /\ UNCHANGED files
    /\ UNCHANGED <<downloads, dirs, call, ret, calls>>
    /\ UNCHANGED <<tfVars, cmdVars, rmVars, appVars>>

\* Lines 175-191: send the GET, look at the status and the content length.
DlSend(t) ==
    /\ pc[t] = "send"
    /\ httpRequests' = httpRequests + 1
    /\ \/ FailSent(t, Error("NetworkError", "Failed to start download"))
       \/ FailSent(t, Error("NetworkError", "HTTP error"))
       \/ \E content_length \in 0..MaxBody :   \* 0: none declared (unwrap_or(0))
             /\ loc' = [loc EXCEPT ![t].total_size = content_length,
                                   ![t].requests = @ + 1]
             /\ SetPc(t, "create")
    /\ UNCHANGED <<downloads, files, dirs, call, ret, calls>>
    /\ UNCHANGED <<tfVars, cmdVars, rmVars, appVars>>

\* Lines 192-198: File::create truncates or creates the destination.
DlCreate(t) ==
    /\ pc[t] = "create"
    /\ \/ /\ Fail(t, Error("IoError", "Failed to create file"))
          /\ UNCHANGED files
       \/ /\ files' = Insert(files, FilePath(call[t]), <<>>)
          /\ loc' = [loc EXCEPT ![t].downloaded = 0]
          /\ SetPc(t, "stream")
    /\ UNCHANGED <<downloads, dirs, httpRequests, call, ret, calls>>
    /\ UNCHANGED <<tfVars, cmdVars, rmVars, appVars>>

\* The destination as this task's file handle sees it (it may have been
\* removed or re-created under the handle; the bytes still go to the path's
\* file when there is one).
AppendTo(path, chunk) ==
    IF Exists(path) THEN [files EXCEPT ![path] = @ \o chunk] ELSE files

Chunk(n) == [i \in 1..n |-> BodyByte]

\* Lines 200-208 and 236-240: the next item of the stream, written to the file.
DlChunk(t) ==
    /\ pc[t] = "stream"
    /\ \/ \* Some(Err(e))
          /\ Fail(t, Error("NetworkError", "Download stream error"))
          /\ UNCHANGED files
       \/ \* Some(Ok(chunk)), write_all fails
          /\ loc[t].downloaded < MaxBody
          /\ Fail(t, Error("IoError", "Failed to write file"))
          /\ UNCHANGED files
       \/ \* Some(Ok(chunk)), write_all succeeds
          \E n \in 1..(MaxBody - loc[t].downloaded) :
             /\ files' = AppendTo(FilePath(call[t]), Chunk(n))
             /\ loc' = [loc EXCEPT ![t].downloaded = @ + n]
             /\ SetPc(t, "progress")
       \/ \* None, then file.sync_all() fails
          /\ Fail(t, Error("IoError", "Failed to sync file"))
          /\ UNCHANGED files
       \/ \* None, then file.sync_all() succeeds: Ok(path)
          /\ SetPc(t, "succeeded")
          /\ UNCHANGED <<files, loc>>
    /\ UNCHANGED <<downloads, dirs, httpRequests, call, ret, calls>>
    /\ UNCHANGED <<tfVars, cmdVars, rmVars, appVars>>

\* A progress update whose guard would live on over the next read of the
\* stream.
DlProgress_HoldingGuard(t) ==
    /\ pc[t] = "progress"
    /\ Locked("downloads")
    /\ downloads' = update_download_status_with_speed(downloads, call[t].episode_id,
                        InProgress, Zero, loc[t].downloaded, loc[t].total_size, Zero)
    /\ held' = [held EXCEPT !["downloads"] = t]
    /\ SetPc(t, "stream")
    /\ UNCHANGED <<files, dirs, httpRequests, call, loc, ret, calls>>
    /\ UNCHANGED <<dbLock, cpc, ccall, cret>>
    /\ UNCHANGED <<tfVars, cmdVars, rmVars>>

\* Lines 210-233: percentage and speed of the bytes so far, stored in the entry.
DlProgress(t) ==
    /\ pc[t] = "progress"
    /\ Locked("downloads")
    /\ \E elapsed \in Elapsed :
       LET total_size == loc[t].total_size
           downloaded == loc[t].downloaded
           percentage == IF total_size > 0 THEN Ratio(100 * downloaded, total_size)
                         ELSE Zero
           speed == IF elapsed > 0 THEN Ratio(downloaded, elapsed) ELSE Zero
       IN  downloads' = update_download_status_with_speed(downloads,
               call[t].episode_id, InProgress, percentage, downloaded, total_size, speed)
    /\ SetPc(t, "stream")
    /\ UNCHANGED <<files, dirs, httpRequests, call, loc, ret, calls>>
    /\ UNCHANGED <<tfVars, cmdVars, rmVars, appVars>>

\* A success that would return without marking the entry.
DlSucceeded_Unrecorded(t) ==
    /\ pc[t] = "succeeded"
    /\ Return(t, Ok(FilePath(call[t])))
    /\ UNCHANGED <<downloads, files, dirs, httpRequests, call, calls>>
    /\ UNCHANGED <<tfVars, cmdVars, rmVars, appVars>>

\* Lines 133-145: Ok(path).
DlSucceeded(t) ==
    /\ pc[t] = "succeeded"
    /\ Locked("downloads")
    /\ downloads' = update_download_status_with_speed(downloads, call[t].episode_id,
                        Completed, Hundred, 0, 0, Zero)
    /\ Return(t, Ok(FilePath(call[t])))
    /\ UNCHANGED <<files, dirs, httpRequests, call, calls>>
    /\ UNCHANGED <<tfVars, cmdVars, rmVars, appVars>>

\* An error path that would clean up after itself: the destination is removed
\* before the error is returned.
DlFailed_RemovingPartial(t) ==
    /\ pc[t] = "failed"
    /\ Locked("downloads")
    /\ downloads' = update_download_status_with_speed(downloads, call[t].episode_id,
                        Failed(to_string(loc[t].err)), Zero, 0, 0, Zero)
    /\ Return(t, Err(loc[t].err))
    /\ files' = [p \in DOMAIN files \ {FilePath(call[t])} |-> files[p]]
    /\ UNCHANGED <<dirs, httpRequests, call, calls>>
    /\ UNCHANGED <<tfVars, cmdVars, rmVars, appVars>>

\* Lines 146-158: Err(e).
DlFailed(t) ==
    /\ pc[t] = "failed"
    /\ Locked("downloads")
    /\ downloads' = update_download_status_with_speed(downloads, call[t].episode_id,
                        Failed(to_string(loc[t].err)), Zero, 0, 0, Zero)
    /\ Return(t, Err(loc[t].err))
    /\ UNCHANGED <<files, dirs, httpRequests, call, calls>>
    /\ UNCHANGED <<tfVars, cmdVars, rmVars, appVars>>

(***************************************************************************)
(* UsbManager                                                              *)
(***************************************************************************)
DevicePaths == {"/usb"}
SourcePaths == {"/ep"}
Filenames == {"a.mp3", "b.mp3"}

\* let mut buffer = vec![0u8; 64 * 1024]
BufferSize == 65536

Min(a, b) == IF a <= b THEN a ELSE b

TransferProgress(device_id, total, transferred, percentage, speed, eta, status) ==
    [episode_id |-> 0, device_id |-> device_id, total_bytes |-> total,
     transferred_bytes |-> transferred, percentage |-> percentage,
     speed_bytes_per_sec |-> speed, eta_seconds |-> eta, status |-> status]

\* format!("{}_{}", source_path, device_path)
TransferKey(source_path, device_path) == source_path \o "_" \o device_path

KeyOf(c) == TransferKey(c.source_path, c.device_path)

\* Disks::new_with_refreshed_list() has a disk mounted at device_path, or not.
get_device_info(device_path) ==
    IF device[device_path].listed
    THEN [ok |-> TRUE, available_space |-> device[device_path].available]
    ELSE [ok |-> FALSE, available_space |-> 0]

update_transfer_status(map, transfer_key, status) ==
    IF transfer_key \in DOMAIN map
    THEN [map EXCEPT ![transfer_key].status = status]
    ELSE map

\* A progress update that would leave the status as it was.
update_transfer_progress_KeepStatus(map, transfer_key, total_bytes, transferred_bytes, status) ==
    LET percentage == IF total_bytes > 0 THEN Ratio(100 * transferred_bytes, total_bytes)
                      ELSE Zero
    IN  IF transfer_key \in DOMAIN map
        THEN [map EXCEPT ![transfer_key] =
                 [@ EXCEPT !.total_bytes = total_bytes,
                           !.transferred_bytes = transferred_bytes,
                           !.percentage = percentage]]
        ELSE map

update_transfer_progress(map, transfer_key, total_bytes, transferred_bytes, status) ==
    LET percentage == IF total_bytes > 0 THEN Ratio(100 * transferred_bytes, total_bytes)
                      ELSE Zero
    IN  IF transfer_key \in DOMAIN map
        THEN [map EXCEPT ![transfer_key] =
                 [@ EXCEPT !.total_bytes = total_bytes,
                           !.transferred_bytes = transferred_bytes,
                           !.percentage = percentage, !.status = status]]
        ELSE map

update_transfer_progress_detailed(map, transfer_key, total_bytes, transferred_bytes, speed_bytes_per_sec, eta_seconds, status) ==
    LET percentage == IF total_bytes > 0 THEN Ratio(100 * transferred_bytes, total_bytes)
                      ELSE Zero
    IN  IF transfer_key \in DOMAIN map
        THEN [map EXCEPT ![transfer_key] =
                 [@ EXCEPT !.total_bytes = total_bytes,
                           !.transferred_bytes = transferred_bytes,
                           !.percentage = percentage,
                           !.speed_bytes_per_sec = speed_bytes_per_sec,
                           !.eta_seconds = eta_seconds, !.status = status]]
        ELSE map

NoTCall == [source_path |-> "", device_path |-> "", filename |-> ""]
NoTLoc == [file_size |-> 0, transferred |-> 0, err |-> NoError]

SetTpc(t, p) == tpc' = [tpc EXCEPT ![t] = p]
TReturn(t, r) == /\ tret' = [tret EXCEPT ![t] = r]
                 /\ tloc' = [tloc EXCEPT ![t] = NoTLoc]
                 /\ SetTpc(t, "done")

\* A missing device reported with the kind of a failed transfer.
DeviceNotFoundError_AsTransferFailed(device_path) ==
    Error("FileTransferFailed", "USB device not found: " \o device_path)

\* The error transfer_file returns when the device root is missing.
DeviceNotFoundError(device_path) == Error("UsbDeviceNotFound", device_path)

InsufficientSpaceMessage(file_size, available_space) ==
    "Insufficient space on USB device. Need " \o ToString(file_size)
        \o " bytes, available " \o ToString(available_space) \o " bytes"

\* The error transfer_file returns when the pre-flight space check fails.
InsufficientSpaceError(file_size, available_space) ==
    Error("FileTransferFailed", InsufficientSpaceMessage(file_size, available_space))

\* A start that would look at the device before the source.
TfStart_DeviceFirst(t) ==
    /\ tpc[t] \in {"idle", "done"}
    /\ Locked("transfers")
    /\ tcalls < MaxTransfers
    /\ tcalls' = tcalls + 1
    /\ \E source_path \in SourcePaths, device_path \in DevicePaths, filename \in Filenames :
         LET c == [source_path |-> source_path, device_path |-> device_path,
                   filename |-> filename]
         IN  /\ tcall' = [tcall EXCEPT ![t] = c]
             /\ transfers' = Insert(transfers, KeyOf(c),
                    TransferProgress(device_path, 0, 0, Zero, Zero, NoEta, Pending))
             /\ IF ~device[device_path].exists
                THEN SetTpc(t, "no_device")
                ELSE IF source_path \notin DOMAIN sources
                     THEN SetTpc(t, "no_source")
                     ELSE SetTpc(t, "metadata")
    /\ tret' = [tret EXCEPT ![t] = NoRet]
    /\ tloc' = [tloc EXCEPT ![t] = NoTLoc]
    /\ UNCHANGED <<sources, device>>
    /\ UNCHANGED <<dlVars, cmdVars, rmVars, appVars>>

\* Lines 184-225: register the Pending entry, then look at source and device.
TfStart(t) ==
    /\ tpc[t] \in {"idle", "done"}
    /\ Locked("transfers")
    /\ tcalls < MaxTransfers
    /\ tcalls' = tcalls + 1
    /\ \E source_path \in SourcePaths, device_path \in DevicePaths, filename \in Filenames :
         LET c == [source_path |-> source_path, device_path |-> device_path,
                   filename |-> filename]
         IN  /\ tcall' = [tcall EXCEPT ![t] = c]
             /\ transfers' = Insert(transfers, KeyOf(c),
                    TransferProgress(device_path, 0, 0, Zero, Zero, NoEta, Pending))
             /\ IF source_path \notin DOMAIN sources
                THEN SetTpc(t, "no_source")
                ELSE IF ~device[device_path].exists
                     THEN SetTpc(t, "no_device")
                     ELSE SetTpc(t, "metadata")
    /\ tret' = [tret EXCEPT ![t] = NoRet]
    /\ tloc' = [tloc EXCEPT ![t] = NoTLoc]
    /\ UNCHANGED <<sources, device>>
    /\ UNCHANGED <<dlVars, cmdVars, rmVars, appVars>>

\* Lines 204-214: the source file does not exist.
TfSourceMissing(t) ==
    /\ tpc[t] = "no_source"
    /\ Locked("transfers")
    /\ transfers' = update_transfer_status(transfers, KeyOf(tcall[t]),
                        Failed("Source file not found: " \o tcall[t].source_path))
    /\ TReturn(t, Err(Error("FileTransferFailed",
                            "Source file not found: " \o tcall[t].source_path)))
    /\ UNCHANGED <<sources, device, tcall, tcalls>>
    /\ UNCHANGED <<dlVars, cmdVars, rmVars, appVars>>

\* Lines 218-225: the device root does not exist.
TfDeviceMissing(t) ==
    /\ tpc[t] = "no_device"
    /\ Locked("transfers")
    /\ transfers' = update_transfer_status(transfers, KeyOf(tcall[t]),
                        Failed("USB device not found: " \o tcall[t].device_path))
    /\ TReturn(t, Err(DeviceNotFoundError(tcall[t].device_path)))
    /\ UNCHANGED <<sources, device, tcall, tcalls>>
    /\ UNCHANGED <<dlVars, cmdVars, rmVars, appVars>>

\* Lines 227-247: the source's size, then the space the device reports.
TfMetadata(t) ==
    /\ tpc[t] = "metadata"
    /\ \/ \* fs::metadata(..).await fails; the ? returns the error as it is
          TReturn(t, Err(Error("FileTransferFailed", "Cannot read source file")))
       \/ /\ tcall[t].source_path \in DOMAIN sources
          /\ LET file_size == Len(sources[tcall[t].source_path])
                 device_info == get_device_info(tcall[t].device_path)
             IN  /\ tloc' = [tloc EXCEPT ![t].file_size = file_size]
                 /\ IF device_info.ok /\ device_info.available_space < file_size
                    THEN SetTpc(t, "no_space")
                    ELSE SetTpc(t, "mkdir")
          /\ UNCHANGED tret
    /\ UNCHANGED <<transfers, sources, device, tcall, tcalls>>
    /\ UNCHANGED <<dlVars, cmdVars, rmVars, appVars>>

\* Lines 235-246: not enough space.
TfInsufficientSpace(t) ==
    /\ tpc[t] = "no_space"
    /\ Locked("transfers")
    /\ LET e == InsufficientSpaceError(tloc[t].file_size,
                    get_device_info(tcall[t].device_path).available_space)
       IN  /\ transfers' = update_transfer_status(transfers, KeyOf(tcall[t]), Failed(e.msg))
           /\ TReturn(t, Err(e))
    /\ UNCHANGED <<sources, device, tcall, tcalls>>
    /\ UNCHANGED <<dlVars, cmdVars, rmVars, appVars>>

\* Lines 249-255: create <device>/PodPico.
TfCreateDir(t) ==
    /\ tpc[t] = "mkdir"
    /\ \/ \* create_dir_all fails; the ? returns the error as it is
          /\ ~device[tcall[t].device_path].dir
          /\ TReturn(t, Err(Error("FileTransferFailed", "Cannot create directory on USB")))
          /\ UNCHANGED device
       \/ /\ device[tcall[t].device_path].exists
          /\ device' = [device EXCEPT ![tcall[t].device_path].dir = TRUE]
          /\ SetTpc(t, "inprogress")
          /\ UNCHANGED <<tret, tloc>>
    /\ UNCHANGED <<transfers, sources, tcall, tcalls>>
    /\ UNCHANGED <<dlVars, cmdVars, rmVars, appVars>>

\* Lines 257-259: the entry becomes InProgress with the size known.
TfInProgress(t) ==
    /\ tpc[t] = "inprogress"
    /\ Locked("transfers")
    /\ transfers' = update_transfer_progress(transfers, KeyOf(tcall[t]),
                        tloc[t].file_size, 0, InProgress)
    /\ SetTpc(t, "open")
    /\ UNCHANGED <<sources, device, tcall, tloc, tret, tcalls>>
    /\ UNCHANGED <<dlVars, cmdVars, rmVars, appVars>>

TFail(t, e) == /\ tloc' = [tloc EXCEPT ![t].err = e]
               /\ SetTpc(t, "failed")

\* Lines 295-305: open the source, create (truncate) the destination.
TfOpen(t) ==
    /\ tpc[t] = "open"
    /\ \/ /\ TFail(t, Error("FileTransferFailed", "Cannot open source file"))
          /\ UNCHANGED device
       \/ /\ TFail(t, Error("FileTransferFailed", "Cannot create destination file"))
          /\ UNCHANGED device
       \/ /\ tcall[t].source_path \in DOMAIN sources
          /\ device[tcall[t].device_path].dir
          /\ device' = [device EXCEPT ![tcall[t].device_path].files =
                            Insert(@, tcall[t].filename, <<>>)]
          /\ tloc' = [tloc EXCEPT ![t].transferred = 0]
          /\ SetTpc(t, "copy")
    /\ UNCHANGED <<transfers, sources, tcall, tret, tcalls>>
    /\ UNCHANGED <<dlVars, cmdVars, rmVars, appVars>>

\* Lines 350-356: dest_file.flush(), then Ok(()).
TfFlush(t) ==
    \/ /\ TFail(t, Error("FileTransferFailed", "Flush error"))
       /\ UNCHANGED device
    \/ /\ SetTpc(t, "succeeded")
       /\ UNCHANGED <<device, tloc>>

\* Lines 307-322: one turn of the copy loop, or the flush after it.
TfCopy(t) ==
    /\ tpc[t] = "copy"
    /\ LET c == tcall[t]
           transferred == tloc[t].transferred
           left == IF c.source_path \in DOMAIN sources
                   THEN SaturatingSub(Len(sources[c.source_path]), transferred)
                   ELSE 0
       IN  IF transferred < tloc[t].file_size
           THEN \/ /\ TFail(t, Error("FileTransferFailed", "Read error"))
                   /\ UNCHANGED device
                \/ /\ left > 0
                   /\ TFail(t, Error("FileTransferFailed", "Write error"))
                   /\ UNCHANGED device
                \/ \E bytes_read \in 1..Min(BufferSize, left) :
                      /\ device' = [device EXCEPT ![c.device_path].files =
                             IF c.filename \in DOMAIN @
                             THEN [@ EXCEPT ![c.filename] =
                                     @ \o SubSeq(sources[c.source_path], transferred + 1,
                                                 transferred + bytes_read)]
                             ELSE @]
                      /\ tloc' = [tloc EXCEPT ![t].transferred = @ + bytes_read]
                      /\ SetTpc(t, "progress")
                \/ \* bytes_read == 0: end of file before total_size
                   /\ left = 0
                   /\ TfFlush(t)
           ELSE TfFlush(t)
    /\ UNCHANGED <<transfers, sources, tcall, tret, tcalls>>
    /\ UNCHANGED <<dlVars, cmdVars, rmVars, appVars>>

\* The ETA a build without overflow checks stores when total_size -
\* transferred wraps around: a u64 near 2^64, beyond every ETA of the model,
\* written as -1.
WrappedEta == SomeEta(0 - 1)

\* Lines 324-347: speed and ETA of the bytes so far, stored in the entry.
TfProgress(t) ==
    /\ tpc[t] = "progress"
    /\ Locked("transfers")
    /\ \E secs \in Elapsed :
       LET total_size == tloc[t].file_size
           transferred == tloc[t].transferred
           speed == IF secs > 0 THEN Ratio(transferred, secs) ELSE Zero
           eta == IF RatLt(Zero, speed)
                  THEN IF transferred <= total_size
                       THEN EtaOf(total_size - transferred, speed)
                       ELSE WrappedEta
                  ELSE NoEta
       IN  \/ /\ transfers' = update_transfer_progress_detailed(transfers,
                      KeyOf(tcall[t]), total_size, transferred, speed, eta, InProgress)
              /\ SetTpc(t, "copy")
           \/ \* total_size - transferred overflows: a build with overflow
              \* checks panics, the task ends there
              /\ RatLt(Zero, speed) /\ transferred > total_size
              /\ SetTpc(t, "panicked")
              /\ UNCHANGED transfers
    /\ UNCHANGED <<sources, device, tcall, tloc, tret, tcalls>>
    /\ UNCHANGED <<dlVars, cmdVars, rmVars, appVars>>

\* Lines 272-277: Ok(()).
TfSucceeded(t) ==
    /\ tpc[t] = "succeeded"
    /\ Locked("transfers")
    /\ transfers' = update_transfer_status(transfers, KeyOf(tcall[t]), Completed)
    /\ TReturn(t, Ok(<<>>))
    /\ UNCHANGED <<sources, device, tcall, tcalls>>
    /\ UNCHANGED <<dlVars, cmdVars, rmVars, appVars>>

\* An error arm that would store Completed for a transfer that failed.
TfFailed_MarkingCompleted(t) ==
    /\ tpc[t] = "failed"
    /\ Locked("transfers")
    /\ transfers' = update_transfer_status(transfers, KeyOf(tcall[t]), Completed)
    /\ TReturn(t, Err(tloc[t].err))
    /\ UNCHANGED <<sources, device, tcall, tcalls>>
    /\ UNCHANGED <<dlVars, cmdVars, rmVars, appVars>>

\* Lines 278-283: Err(e).
TfFailed(t) ==
    /\ tpc[t] = "failed"
    /\ Locked("transfers")
    /\ transfers' = update_transfer_status(transfers, KeyOf(tcall[t]),
                        Failed(to_string(tloc[t].err)))
    /\ TReturn(t, Err(tloc[t].err))
    /\ UNCHANGED <<sources, device, tcall, tcalls>>
    /\ UNCHANGED <<dlVars, cmdVars, rmVars, appVars>>

\* Another process truncates a source file while it is being copied.
SourceTruncated(t) ==
    /\ tpc[t] = "copy"
    /\ tcall[t].source_path \in DOMAIN sources
    /\ Len(sources[tcall[t].source_path]) > 0
    /\ sources' = [sources EXCEPT ![tcall[t].source_path] = SubSeq(@, 1, Len(@) - 1)]
    /\ UNCHANGED <<transfers, device, tpc, tcall, tloc, tret, tcalls>>
    /\ UNCHANGED <<dlVars, cmdVars, rmVars, appVars>>

\* Another process appends to a source file while it is being copied (the
\* size was read before the copy).
SourceAppended(t) ==
    /\ tpc[t] = "copy"
    /\ tcall[t].source_path \in DOMAIN sources
    /\ Len(sources[tcall[t].source_path]) < MaxSize
    /\ sources' = [sources EXCEPT ![tcall[t].source_path] = Append(@, Len(@) + 1)]
    /\ UNCHANGED <<transfers, device, tpc, tcall, tloc, tret, tcalls>>
    /\ UNCHANGED <<dlVars, cmdVars, rmVars, appVars>>

SourceContent(n) == [i \in 1..n |-> i]
LeftOnDevice == <<0>>

NoDevice == [exists |-> FALSE, listed |-> FALSE, available |-> 0, dir |-> FALSE,
             files |-> << >>]

\* UsbManager::new, with the sources on disk and the device as plugged in.
TfInit ==
    /\ transfers = << >>
    /\ \E present \in SUBSET SourcePaths, n \in 0..MaxSize :
         sources = [p \in present |-> SourceContent(n)]
    /\ \E exists, listed, dir \in BOOLEAN, available \in 0..MaxSize,
          left \in SUBSET {"a.mp3"} :
         /\ listed => exists
         /\ dir => exists
         /\ left # {} => dir
         /\ ~exists => available = 0
         /\ device = [d \in DevicePaths |->
                        [exists |-> exists, listed |-> listed, available |-> available,
                         dir |-> dir, files |-> [f \in left |-> LeftOnDevice]]]
    /\ tpc = [t \in Tasks |-> "idle"]
    /\ tcall = [t \in Tasks |-> NoTCall]
    /\ tloc = [t \in Tasks |-> NoTLoc]
    /\ tret = [t \in Tasks |-> NoRet]
    /\ tcalls = 0

(***************************************************************************)
(* UsbManager::remove_file: no await inside, one step.                     *)
(***************************************************************************)
NoRemoval == [device_path |-> "", filename |-> "", kind |-> "None", err |-> NoError]

Removed(device_path, filename, r) ==
    [device_path |-> device_path, filename |-> filename, kind |-> r.kind, err |-> r.err]

\* <device_path>/PodPico/<filename> exists
OnDevice(device_path, filename) ==
    /\ device[device_path].exists
    /\ device[device_path].dir
    /\ filename \in DOMAIN device[device_path].files

\* An error that would not say which file is missing.
EpisodeFileNotFoundError_Unnamed(filename) ==
    Error("FileTransferFailed", "Episode file not found on device")

\* The error remove_file returns when the file is not on the device.
EpisodeFileNotFoundError(filename) ==
    Error("FileTransferFailed", "Episode file '" \o filename \o "' not found on device")

\* A removal that would tidy up: the namespace directory goes with its last
\* file.
RemoveFile_AndEmptyDirectory(device_path, filename) ==
    /\ removals < MaxRemovals
    /\ removals' = removals + 1
    /\ OnDevice(device_path, filename)
    /\ LET rest == [f \in DOMAIN device[device_path].files \ {filename} |->
                      device[device_path].files[f]]
       IN  device' = [device EXCEPT ![device_path].files = rest,
                                    ![device_path].dir = (DOMAIN rest # {})]
    /\ removal' = Removed(device_path, filename, Ok(<<>>))
    /\ UNCHANGED <<transfers, sources, tpc, tcall, tloc, tret, tcalls>>
    /\ UNCHANGED <<dlVars, cmdVars, delVars, lockVars, appVars>>

\* Lines 425-481.
RemoveFile(device_path, filename) ==
    /\ removals < MaxRemovals
    /\ removals' = removals + 1
    /\ IF ~device[device_path].exists
       THEN /\ removal' = Removed(device_path, filename,
                              Err(DeviceNotFoundError(device_path)))
            /\ UNCHANGED device
       ELSE IF ~OnDevice(device_path, filename)
       THEN /\ removal' = Removed(device_path, filename,
                              Err(EpisodeFileNotFoundError(filename)))
            /\ UNCHANGED device
       ELSE \/ \* std::fs::remove_file succeeds
               /\ device' = [device EXCEPT ![device_path].files =
                                [f \in DOMAIN @ \ {filename} |-> @[f]]]
               /\ removal' = Removed(device_path, filename, Ok(<<>>))
            \/ \* std::fs::remove_file fails
               /\ removal' = Removed(device_path, filename,
                                 Err(Error("FileTransferFailed",
                                     "Failed to remove episode file '" \o filename \o "'")))
               /\ UNCHANGED device
    /\ UNCHANGED <<transfers, sources, tpc, tcall, tloc, tret, tcalls>>
    /\ UNCHANGED <<dlVars, cmdVars, delVars, lockVars, appVars>>

TfNext ==
    \E t \in Tasks :
       \/ TfStart(t)
       \/ TfSourceMissing(t)
       \/ TfDeviceMissing(t)
       \/ TfMetadata(t)
       \/ TfInsufficientSpace(t)
       \/ TfCreateDir(t)
       \/ TfInProgress(t)
       \/ TfOpen(t)
       \/ TfCopy(t)
       \/ TfProgress(t)
       \/ TfSucceeded(t)
       \/ TfFailed(t)
       \/ SourceTruncated(t)
       \/ SourceAppended(t)

\* FileManager::new, with what may already be on disk (the tests write
\* "existing content" before the first call).
DlInit ==
    /\ downloads = << >>
    /\ \E present \in SUBSET {<<1, <<"e", ".", "m">>>>} :
         /\ files = [p \in present |-> ExistingContent]
         /\ dirs = {p[1] : p \in present}
    /\ httpRequests = 0
    /\ pc = [t \in Tasks |-> "idle"]
    /\ call = [t \in Tasks |-> NoCall]
    /\ loc = [t \in Tasks |-> NoLoc]
    /\ ret = [t \in Tasks |-> NoRet]
    /\ calls = 0

(***************************************************************************)
(* FileManager::delete_episode, by the caller of download_episode.         *)
(***************************************************************************)
NoDeletion == [podcast_id |-> 0, episode_id |-> 0, kind |-> "None", err |-> NoError]

\* Lines 353-357: download_directory.join(podcast_id).join("<episode_id>.mp3")
get_episode_path(podcast_id, episode_id) == <<podcast_id, EpisodeIdMp3(episode_id)>>

\* Lines 359-364: a call of delete_episode begins, between two downloads.
DeleteStart(t) ==
    /\ pc[t] \in {"idle", "done"}
    /\ deletions < MaxDeletions
    /\ deletions' = deletions + 1
    /\ \E podcast_id \in Podcasts, episode_id \in Episodes :
         deletion' = [NoDeletion EXCEPT !.podcast_id = podcast_id,
                                        !.episode_id = episode_id]
    /\ SetPc(t, "delete_file")
    /\ UNCHANGED <<downloads, files, dirs, httpRequests, call, loc, ret, calls>>
    /\ UNCHANGED <<removal, removals, lockVars>>
    /\ UNCHANGED <<tfVars, cmdVars, appVars>>

\* Lines 364-369: the file at get_episode_path is removed when it exists.
DeleteFile(t) ==
    /\ pc[t] = "delete_file"
    /\ LET file_path == get_episode_path(deletion.podcast_id, deletion.episode_id)
       IN  IF Exists(file_path)
           THEN \/ \* fs::remove_file(file_path).await? fails
                   /\ deletion' = [deletion EXCEPT !.kind = "Err",
                                       !.err = Error("Io", "remove_file")]
                   /\ SetPc(t, "idle")
                   /\ UNCHANGED files
                \/ /\ files' = [p \in DOMAIN files \ {file_path} |-> files[p]]
                   /\ SetPc(t, "delete_entry")
                   /\ UNCHANGED deletion
           ELSE /\ SetPc(t, "delete_entry")
                /\ UNCHANGED <<files, deletion>>
    /\ UNCHANGED <<downloads, dirs, httpRequests, call, loc, ret, calls>>
    /\ UNCHANGED <<removal, removals, deletions, lockVars>>
    /\ UNCHANGED <<tfVars, cmdVars, appVars>>

\* Lines 371-375: the entry leaves the downloads table, Ok(()).
DeleteEntry(t) ==
    /\ pc[t] = "delete_entry"
    /\ Locked("downloads")
    /\ downloads' = [e \in DOMAIN downloads \ {deletion.episode_id} |-> downloads[e]]
    /\ deletion' = [deletion EXCEPT !.kind = "Ok"]
    /\ SetPc(t, "idle")
    /\ UNCHANGED <<files, dirs, httpRequests, call, loc, ret, calls>>
    /\ UNCHANGED <<removal, removals, deletions, lockVars>>
    /\ UNCHANGED <<tfVars, cmdVars, appVars>>

DlNext ==
    \E t \in Tasks :
       \/ DlStart(t)
       \/ DlCreateDir(t)
       \/ DlAlreadyDownloaded(t)
       \/ DlPending(t)
       \/ DlCheckDiskSpace(t)
       \/ DlInProgress(t)
       \/ DlSend(t)
       \/ DlCreate(t)
       \/ DlChunk(t)
       \/ DlProgress(t)
       \/ DlSucceeded(t)
       \/ DlFailed(t)

(***************************************************************************)
(* The episodes table (DatabaseManager) and the device-status commands.    *)
(***************************************************************************)
EpisodeIds == {1, 2}
DeviceFilenames == Filenames \cup {"example.mp3"}

\* local_file_path: directory and file name; <<>> is NULL.
NoPath == << >>
LocalPaths == { NoPath, <<"episodes", "a.mp3">>, <<"episodes", "b.mp3">> }

FileNameOf(path) == path[Len(path)]

\* The file names the table expects on a device.
ExpectedFilenames(eps) ==
    { FileNameOf(eps[e].local_file_path) :
        e \in { i \in DOMAIN eps : eps[i].on_device /\ eps[i].local_file_path # NoPath } }

\* DatabaseManager::update_episode_on_device_status
update_episode_on_device_status(eps, episode_id, on_device) ==
    [e \in DOMAIN eps |->
        IF e = episode_id THEN [eps[e] EXCEPT !.on_device = on_device] ELSE eps[e]]

\* The file names in <device>/PodPico; nothing when the directory is missing.
ScanDevice(device_path) ==
    IF device_path \in DOMAIN device /\ device[device_path].dir
    THEN DOMAIN device[device_path].files
    ELSE {}

\* UsbManager::verify_episode_status_consistency
UsbVerifyEpisodeStatusConsistency(device_path, episode_filenames) ==
    LET scan == ScanDevice(device_path)
    IN  [files_found |-> Cardinality(scan),
         database_episodes |-> Cardinality(episode_filenames),
         is_consistent |-> (episode_filenames \ scan = {}) /\ (scan \ episode_filenames = {}),
         missing_from_device |-> episode_filenames \ scan,
         missing_from_database |-> scan \ episode_filenames]

\* UsbManager::sync_device_episode_status
UsbSyncDeviceEpisodeStatus(device_path) ==
    LET scan == ScanDevice(device_path)
    IN  [files_found |-> Cardinality(scan),
         is_consistent |-> ExpectedFilenames(episodes) \subseteq scan]

NoReport ==
    [command |-> "", device_path |-> "", expected |-> {}, files_found |-> 0,
     database_episodes |-> 0, is_consistent |-> FALSE, missing_from_device |-> {},
     missing_from_database |-> {}, processed_files |-> 0, updated_episodes |-> 0]

\* DeviceSyncReport of the sync command (sync_duration_ms left out)
DeviceSyncReport(device_path, sync_result) ==
    [NoReport EXCEPT !.command = "sync", !.device_path = device_path,
                     !.processed_files = sync_result.files_found,
                     !.updated_episodes = 0,
                     !.is_consistent = sync_result.is_consistent]

\* A report with the two missing sets in each other's place.
DeviceStatusConsistencyReport_Swapped(device_path, episode_filenames, consistency_result) ==
    [NoReport EXCEPT !.command = "verify", !.device_path = device_path,
                     !.expected = episode_filenames,
                     !.files_found = consistency_result.files_found,
                     !.database_episodes = consistency_result.database_episodes,
                     !.is_consistent = consistency_result.is_consistent,
                     !.missing_from_device = consistency_result.missing_from_database,
                     !.missing_from_database = consistency_result.missing_from_device]

\* DeviceStatusConsistencyReport of the verify command
DeviceStatusConsistencyReport(device_path, episode_filenames, consistency_result) ==
    [NoReport EXCEPT !.command = "verify", !.device_path = device_path,
                     !.expected = episode_filenames,
                     !.files_found = consistency_result.files_found,
                     !.database_episodes = consistency_result.database_episodes,
                     !.is_consistent = consistency_result.is_consistent,
                     !.missing_from_device = consistency_result.missing_from_device,
                     !.missing_from_database = consistency_result.missing_from_database]

\* let episode_filenames = vec!["example.mp3".to_string()]
VerifyEpisodeFilenames(eps) == {"example.mp3"}

Ran == commands' = commands + 1 /\ previous' = report.command

\* A sync that would repair one drifted episode a run: the flag of the
\* lowest episode whose file is gone from the device is cleared.
SyncEpisodeDeviceStatus_OneARun(device_path) ==
    /\ commands < MaxCommands
    /\ Ran
    /\ report' = DeviceSyncReport(device_path, UsbSyncDeviceEpisodeStatus(device_path))
    /\ LET gone == { e \in DOMAIN episodes :
                        /\ episodes[e].on_device /\ episodes[e].local_file_path # NoPath
                        /\ FileNameOf(episodes[e].local_file_path)
                              \notin ScanDevice(device_path) }
       IN  episodes' = [e \in DOMAIN episodes |->
                          IF e \in gone /\ \A o \in gone : e <= o
                          THEN [episodes[e] EXCEPT !.on_device = FALSE]
                          ELSE episodes[e]]
    /\ UNCHANGED device
    /\ UNCHANGED <<dlVars, usbVars, rmVars, appVars>>

\* A sync that would adopt the files it finds: flags set from the scan.
SyncEpisodeDeviceStatus_Adopting(device_path) ==
    /\ commands < MaxCommands
    /\ Ran
    /\ report' = DeviceSyncReport(device_path, UsbSyncDeviceEpisodeStatus(device_path))
    /\ episodes' = [e \in DOMAIN episodes |->
                      IF /\ episodes[e].local_file_path # NoPath
                         /\ FileNameOf(episodes[e].local_file_path) \in ScanDevice(device_path)
                      THEN [episodes[e] EXCEPT !.on_device = TRUE]
                      ELSE episodes[e]]
    /\ UNCHANGED device
    /\ UNCHANGED <<dlVars, usbVars, rmVars, appVars>>

\* commands.rs sync_episode_device_status
SyncEpisodeDeviceStatus(device_path) ==
    /\ commands < MaxCommands
    /\ Ran
    /\ report' = DeviceSyncReport(device_path, UsbSyncDeviceEpisodeStatus(device_path))
    /\ UNCHANGED <<episodes, device>>
    /\ UNCHANGED <<dlVars, usbVars, rmVars, appVars>>

\* commands.rs verify_episode_status_consistency
VerifyEpisodeStatusConsistency(device_path) ==
    /\ commands < MaxCommands
    /\ Ran
    /\ LET episode_filenames == VerifyEpisodeFilenames(episodes)
       IN  report' = DeviceStatusConsistencyReport(device_path, episode_filenames,
                UsbVerifyEpisodeStatusConsistency(device_path, episode_filenames))
    /\ UNCHANGED <<episodes, device>>
    /\ UNCHANGED <<dlVars, usbVars, rmVars, appVars>>

\* A direct call of UsbManager::verify_episode_status_consistency.
UsbVerify(device_path, episode_filenames) ==
    /\ commands < MaxCommands
    /\ Ran
    /\ report' = [DeviceStatusConsistencyReport(device_path, episode_filenames,
                     UsbVerifyEpisodeStatusConsistency(device_path, episode_filenames))
                  EXCEPT !.command = "usb_verify"]
    /\ UNCHANGED <<episodes, device>>
    /\ UNCHANGED <<dlVars, usbVars, rmVars, appVars>>

\* The table write the transfer and removal commands end with; they return
\* no report.
UpdateEpisodeOnDeviceStatus(episode_id, on_device) ==
    /\ commands < MaxCommands
    /\ Ran
    /\ episodes' = update_episode_on_device_status(episodes, episode_id, on_device)
    /\ report' = [NoReport EXCEPT !.command = IF on_device THEN "transfer" ELSE "remove"]
    /\ UNCHANGED device
    /\ UNCHANGED <<dlVars, usbVars, rmVars, appVars>>

\* Somebody deletes a file from the device by hand.
FileDeletedFromDevice(device_path, filename) ==
    /\ filename \in ScanDevice(device_path)
    /\ device' = [device EXCEPT ![device_path].files =
                     [f \in DOMAIN @ \ {filename} |-> @[f]]]
    /\ UNCHANGED <<episodes, report, commands, previous>>
    /\ UNCHANGED <<dlVars, usbVars, rmVars, appVars>>

\* The table after some downloads and transfers, and a device with some
\* files on it.
CmdInit ==
    /\ \E p1 \in LocalPaths, p2 \in LocalPaths, marked \in SUBSET EpisodeIds :
         episodes = [e \in EpisodeIds |->
                       [on_device |-> e \in marked,
                        local_file_path |-> IF e = 1 THEN p1 ELSE p2]]
    /\ report = NoReport
    /\ commands = 0
    /\ previous = ""
    /\ \E on \in SUBSET DeviceFilenames :
         device = [d \in DevicePaths |->
                     [exists |-> TRUE, listed |-> TRUE, available |-> MaxSize,
                      dir |-> TRUE, files |-> [f \in on |-> LeftOnDevice]]]

CmdNext ==
    \/ \E d \in DevicePaths : SyncEpisodeDeviceStatus(d)
    \/ \E d \in DevicePaths : VerifyEpisodeStatusConsistency(d)
    \/ \E d \in DevicePaths, E \in SUBSET Filenames : UsbVerify(d, E)
    \/ \E e \in EpisodeIds, b \in BOOLEAN : UpdateEpisodeOnDeviceStatus(e, b)
    \/ \E d \in DevicePaths, f \in DeviceFilenames : FileDeletedFromDevice(d, f)

(***************************************************************************)
(* The commands of commands.rs that drive the engines: download_episode,   *)
(* transfer_episode_to_device, remove_episode_from_device and              *)
(* get_download_progress.  Each invocation runs as its own task; the       *)
(* engine call it makes runs under the invocation's name.                  *)
(***************************************************************************)
Commands == {"c1", "c2"}
CommandNames == {"download_episode", "transfer_episode_to_device",
                 "remove_episode_from_device", "get_download_progress"}

\* Episode ids a caller asks for: 1 is in the table, 2 is not.
RequestedIds == {1, 2}
DeviceIds == {"USB__usb"}

NoCommand == [name |-> "", episode_id |-> 0, device_id |-> ""]
NoResult == [kind |-> "None", msg |-> "", value |-> Zero]
CommandOk == [kind |-> "Ok", msg |-> "", value |-> Zero]
CommandValue(v) == [kind |-> "Ok", msg |-> "", value |-> v]
CommandErr(msg) == [kind |-> "Err", msg |-> msg, value |-> Zero]

\* Option<String> of the local_file_path column: None
NoLocalPath == ""

RECURSIVE Concat(_)
Concat(chars) == IF chars = << >> THEN "" ELSE Head(chars) \o Concat(Tail(chars))

\* file_path.to_string_lossy() of a path under FileManager::new("./episodes")
PathString(path) == "./episodes/" \o ToString(path[1]) \o "/" \o Concat(path[2])

\* The table of a FileManager just made by FileManager::new
NewDownloads == << >>

\* Option<i64>: None and Some(id)
NoneId == [some |-> FALSE, val |-> 0]
SomeId(id) == [some |-> TRUE, val |-> id]

\* DatabaseManager::get_episodes: the ids of the rows returned, those of the
\* podcast when one is given and those with status 'new' otherwise.
get_episodes(podcast_id) ==
    IF podcast_id.some
    THEN {e \in DOMAIN episodes : episodes[e].podcast_id = podcast_id.val}
    ELSE {e \in DOMAIN episodes : episodes[e].status = "new"}

\* DatabaseManager::update_episode_downloaded_status
update_episode_downloaded_status(eps, episode_id, downloaded, local_file_path) ==
    [e \in DOMAIN eps |->
        IF e = episode_id
        THEN [eps[e] EXCEPT !.downloaded = downloaded, !.local_file_path = local_file_path]
        ELSE eps[e]]

\* format!("{}_{}", name, mount point), with ' ', '/' and '\' replaced by '_'
DeviceIdOf(mount_point) == IF mount_point = "/usb" THEN "USB__usb" ELSE "disk_"

\* UsbManager::detect_devices: the listed disks that pass is_usb_device
detect_devices ==
    { [id |-> DeviceIdOf(d), path |-> d] :
        d \in { x \in DevicePaths : device[x].listed /\ device[x].available > 0 } }

\* format!("{}.mp3", sanitized title)
TitleFilename(episode) == episode.title \o ".mp3"

\* The local files as the transfer engine reads them: the files the
\* download engine wrote are found under the path strings it returned.
LocalFiles ==
    LET written == { PathString(f) : f \in DOMAIN files }
        FileAt(str) == CHOOSE f \in DOMAIN files : PathString(f) = str
    IN  [p \in DOMAIN sources \cup written |->
            IF p \in DOMAIN sources THEN sources[p]
            ELSE SourceContent(Len(files[FileAt(p)]))]

\* The invocation returns r; its DATABASE guard goes out of scope.
Finish(c, r) ==
    /\ cret' = [cret EXCEPT ![c] = r]
    /\ cpc' = [cpc EXCEPT ![c] = "done"]
    /\ dbLock' = NoHolder

SetCpc(c, p) == cpc' = [cpc EXCEPT ![c] = p]

\* The front end invokes a command.
CmdInvoke(c) ==
    /\ cpc[c] = "idle"
    /\ \E name \in CommandNames, episode_id \in RequestedIds, device_id \in DeviceIds :
         /\ ccall' = [ccall EXCEPT ![c] = [name |-> name, episode_id |-> episode_id,
                                           device_id |-> device_id]]
         /\ SetCpc(c, IF name = "get_download_progress" THEN "poll" ELSE "lock")
    /\ UNCHANGED <<held, dbLock, cret>>
    /\ UNCHANGED <<dlVars, tfVars, cmdVars, rmVars>>

\* A lock step that would not wait for the holder of the mutex.
CmdLockDatabase_NotExclusive(c) ==
    /\ cpc[c] = "lock"
    /\ dbLock' = c
    /\ SetCpc(c, "get")
    /\ UNCHANGED <<held, ccall, cret>>
    /\ UNCHANGED <<dlVars, tfVars, cmdVars, rmVars>>

\* let db_lock = DATABASE.lock().await; the guard lives to the end of the
\* command.  USB_MANAGER is locked only by holders of DATABASE (lines 403,
\* 494), so that lock is always free here.
CmdLockDatabase(c) ==
    /\ cpc[c] = "lock"
    /\ dbLock = NoHolder
    /\ dbLock' = c
    /\ SetCpc(c, "get")
    /\ UNCHANGED <<held, ccall, cret>>
    /\ UNCHANGED <<dlVars, tfVars, cmdVars, rmVars>>

\* A command that would start the engine without looking at the flag.
DownloadEpisodeGet_Unconditional(c) ==
    /\ cpc[c] = "get"
    /\ ccall[c].name = "download_episode"
    /\ ccall[c].episode_id \in get_episodes(NoneId)
    /\ SetCpc(c, "init")
    /\ UNCHANGED <<held, dbLock, ccall, cret>>
    /\ UNCHANGED <<dlVars, tfVars, cmdVars, rmVars>>

\* download_episode, lines 308-326: the episode's row and its downloaded flag.
DownloadEpisodeGet(c) ==
    /\ cpc[c] = "get"
    /\ ccall[c].name = "download_episode"
    /\ LET episode_id == ccall[c].episode_id
       IN  \/ Finish(c, CommandErr("Failed to get episode"))
           \/ /\ episode_id \notin get_episodes(NoneId)
              /\ Finish(c, CommandErr("Episode not found"))
           \/ /\ episode_id \in get_episodes(NoneId)
              /\ episodes[episode_id].downloaded
              /\ Finish(c, CommandOk)
           \/ /\ episode_id \in get_episodes(NoneId)
              /\ ~episodes[episode_id].downloaded
              /\ SetCpc(c, "init")
              /\ UNCHANGED <<dbLock, cret>>
    /\ UNCHANGED <<held, ccall>>
    /\ UNCHANGED <<dlVars, tfVars, cmdVars, rmVars>>

\* download_episode, lines 328-339: a FileManager of its own, initialize(),
\* and the call of FileManager::download_episode up to its first await.
DownloadEpisodeCall(c) ==
    /\ cpc[c] = "init"
    /\ \/ /\ Finish(c, CommandErr("Failed to initialize file manager"))
          /\ UNCHANGED <<downloads, pc, call, loc, ret, calls>>
       \/ /\ LET episode == episodes[ccall[c].episode_id]
             IN  call' = [call EXCEPT ![c] = [episode_url |-> episode.episode_url,
                                              episode_id |-> ccall[c].episode_id,
                                              podcast_id |-> episode.podcast_id]]
          /\ downloads' = NewDownloads
          /\ loc' = [loc EXCEPT ![c] = NoLoc]
          /\ ret' = [ret EXCEPT ![c] = NoRet]
          /\ SetPc(c, "mkdir")
          /\ calls' = calls + 1
          /\ SetCpc(c, "engine")
          /\ UNCHANGED <<dbLock, cret>>
    /\ UNCHANGED <<files, dirs, httpRequests, held, ccall>>
    /\ UNCHANGED <<tfVars, cmdVars, rmVars>>

\* A command that would record the download whatever the engine returned.
DownloadEpisodeReturned_Always(c) ==
    /\ cpc[c] = "engine"
    /\ ccall[c].name = "download_episode"
    /\ pc[c] = "done"
    /\ episodes' = update_episode_downloaded_status(episodes, ccall[c].episode_id,
                       TRUE, PathString(FilePath(call[c])))
    /\ Finish(c, CommandOk)
    /\ downloads' = NewDownloads
    /\ pc' = [pc EXCEPT ![c] = "idle"]
    /\ call' = [call EXCEPT ![c] = NoCall]
    /\ ret' = [ret EXCEPT ![c] = NoRet]
    /\ UNCHANGED <<files, dirs, httpRequests, loc, calls, held, ccall>>
    /\ UNCHANGED <<report, commands, previous>>
    /\ UNCHANGED <<tfVars, rmVars>>

\* download_episode, lines 341-360: the engine's result, then the table.
\* The command's FileManager is dropped with its table.
DownloadEpisodeReturned(c) ==
    /\ cpc[c] = "engine"
    /\ ccall[c].name = "download_episode"
    /\ pc[c] = "done"
    /\ IF ret[c].kind = "Ok"
       THEN \/ /\ episodes' = update_episode_downloaded_status(episodes,
                                  ccall[c].episode_id, TRUE, PathString(ret[c].path))
               /\ Finish(c, CommandOk)
            \/ /\ Finish(c, CommandErr("Failed to update episode status"))
               /\ UNCHANGED episodes
       ELSE /\ Finish(c, CommandErr("Download failed: " \o to_string(ret[c].err)))
            /\ UNCHANGED episodes
    /\ downloads' = NewDownloads
    /\ pc' = [pc EXCEPT ![c] = "idle"]
    /\ call' = [call EXCEPT ![c] = NoCall]
    /\ ret' = [ret EXCEPT ![c] = NoRet]
    /\ UNCHANGED <<files, dirs, httpRequests, loc, calls, held, ccall>>
    /\ UNCHANGED <<report, commands, previous>>
    /\ UNCHANGED <<tfVars, rmVars>>

\* get_download_progress, lines 364-378: a FileManager of its own, then
\* FileManager::get_download_progress on it.  DATABASE is not locked.
GetDownloadProgress(c) ==
    /\ cpc[c] = "poll"
    /\ LET episode_id == ccall[c].episode_id
           own == NewDownloads
       IN  cret' = [cret EXCEPT ![c] =
                       CommandValue(IF episode_id \in DOMAIN own
                                    THEN own[episode_id].percentage ELSE Zero)]
    /\ SetCpc(c, "done")
    /\ UNCHANGED <<held, dbLock, ccall>>
    /\ UNCHANGED <<dlVars, tfVars, cmdVars, rmVars>>

\* A command that would look for the device before it looks at the row.
TransferEpisodeGet_DeviceFirst(c) ==
    /\ cpc[c] = "get"
    /\ ccall[c].name = "transfer_episode_to_device"
    /\ ccall[c].episode_id \in get_episodes(SomeId(ccall[c].episode_id))
    /\ LET episode_id == ccall[c].episode_id
       IN  IF \A dev \in detect_devices : dev.id # ccall[c].device_id
           THEN Finish(c, CommandErr("USB device not found or not connected"))
           ELSE IF \/ ~episodes[episode_id].downloaded
                   \/ episodes[episode_id].local_file_path = NoLocalPath
           THEN Finish(c, CommandErr("Episode is not downloaded yet"))
           ELSE /\ SetCpc(c, "call")
                /\ UNCHANGED <<dbLock, cret>>
    /\ UNCHANGED <<held, ccall>>
    /\ UNCHANGED <<dlVars, tfVars, cmdVars, rmVars>>

\* transfer_episode_to_device, lines 400-443: the row, the downloaded check,
\* then the device among the detected ones.
TransferEpisodeGet(c) ==
    /\ cpc[c] = "get"
    /\ ccall[c].name = "transfer_episode_to_device"
    /\ LET episode_id == ccall[c].episode_id
       IN  \/ Finish(c, CommandErr("Failed to get episode"))
           \/ /\ episode_id \notin get_episodes(SomeId(episode_id))
              /\ Finish(c, CommandErr("Episode " \o ToString(episode_id) \o " not found"))
           \/ /\ episode_id \in get_episodes(SomeId(episode_id))
              /\ IF \/ ~episodes[episode_id].downloaded
                    \/ episodes[episode_id].local_file_path = NoLocalPath
                 THEN Finish(c, CommandErr("Episode is not downloaded yet"))
                 ELSE IF \A dev \in detect_devices : dev.id # ccall[c].device_id
                 THEN Finish(c, CommandErr("USB device not found or not connected"))
                 ELSE /\ SetCpc(c, "call")
                      /\ UNCHANGED <<dbLock, cret>>
    /\ UNCHANGED <<held, ccall>>
    /\ UNCHANGED <<dlVars, tfVars, cmdVars, rmVars>>

\* transfer_episode_to_device, lines 445-465 with usb_manager.rs 184-225:
\* the call of transfer_file up to its first status update.
TransferEpisodeCall(c) ==
    /\ cpc[c] = "call"
    /\ Locked("transfers")
    /\ LET episode == episodes[ccall[c].episode_id]
           dev == CHOOSE d \in detect_devices : d.id = ccall[c].device_id
           a == [source_path |-> episode.local_file_path, device_path |-> dev.path,
                 filename |-> TitleFilename(episode)]
       IN  /\ \E d \in detect_devices : d.id = ccall[c].device_id
           /\ tcall' = [tcall EXCEPT ![c] = a]
           /\ transfers' = Insert(transfers, KeyOf(a),
                  TransferProgress(a.device_path, 0, 0, Zero, Zero, NoEta, Pending))
           /\ sources' = LocalFiles
           /\ IF a.source_path \notin DOMAIN LocalFiles
              THEN SetTpc(c, "no_source")
              ELSE IF ~device[a.device_path].exists
                   THEN SetTpc(c, "no_device")
                   ELSE SetTpc(c, "metadata")
    /\ tret' = [tret EXCEPT ![c] = NoRet]
    /\ tloc' = [tloc EXCEPT ![c] = NoTLoc]
    /\ tcalls' = tcalls + 1
    /\ SetCpc(c, "engine")
    /\ UNCHANGED <<device, held, dbLock, ccall, cret>>
    /\ UNCHANGED <<dlVars, cmdVars, rmVars>>

\* transfer_episode_to_device, lines 461-479: the engine's result, then the
\* on_device flag.
TransferEpisodeReturned(c) ==
    /\ cpc[c] = "engine"
    /\ ccall[c].name = "transfer_episode_to_device"
    /\ tpc[c] = "done"
    /\ IF tret[c].kind = "Ok"
       THEN \/ /\ episodes' = update_episode_on_device_status(episodes,
                                  ccall[c].episode_id, TRUE)
               /\ Finish(c, CommandOk)
            \/ /\ Finish(c, CommandErr("Failed to update episode transfer status"))
               /\ UNCHANGED episodes
       ELSE /\ Finish(c, CommandErr("Transfer failed: " \o to_string(tret[c].err)))
            /\ UNCHANGED episodes
    /\ tpc' = [tpc EXCEPT ![c] = "idle"]
    /\ tcall' = [tcall EXCEPT ![c] = NoTCall]
    /\ tret' = [tret EXCEPT ![c] = NoRet]
    /\ UNCHANGED <<transfers, sources, device, tloc, tcalls, held, ccall>>
    /\ UNCHANGED <<report, commands, previous>>
    /\ UNCHANGED <<dlVars, rmVars>>

\* The copy loop panicked (line 333): the task unwinds and its guards are
\* dropped; the invocation never returns a value.
TransferEpisodePanicked(c) ==
    /\ cpc[c] = "engine"
    /\ ccall[c].name = "transfer_episode_to_device"
    /\ tpc[c] = "panicked"
    /\ SetCpc(c, "panicked")
    /\ dbLock' = NoHolder
    /\ tpc' = [tpc EXCEPT ![c] = "idle"]
    /\ tcall' = [tcall EXCEPT ![c] = NoTCall]
    /\ tloc' = [tloc EXCEPT ![c] = NoTLoc]
    /\ UNCHANGED <<transfers, sources, device, tret, tcalls, held, ccall, cret>>
    /\ UNCHANGED <<dlVars, cmdVars, rmVars>>

\* remove_episode_from_device, lines 491-532: the row, the on_device check,
\* then the device among the detected ones.
RemoveEpisodeGet(c) ==
    /\ cpc[c] = "get"
    /\ ccall[c].name = "remove_episode_from_device"
    /\ LET episode_id == ccall[c].episode_id
       IN  \/ Finish(c, CommandErr("Failed to get episode"))
           \/ /\ episode_id \notin get_episodes(SomeId(episode_id))
              /\ Finish(c, CommandErr("Episode " \o ToString(episode_id) \o " not found"))
           \/ /\ episode_id \in get_episodes(SomeId(episode_id))
              /\ IF ~episodes[episode_id].on_device
                 THEN Finish(c, CommandErr("Episode is not currently on any USB device"))
                 ELSE IF \A dev \in detect_devices : dev.id # ccall[c].device_id
                 THEN Finish(c, CommandErr("USB device not found or not connected"))
                 ELSE /\ SetCpc(c, "remove")
                      /\ UNCHANGED <<dbLock, cret>>
    /\ UNCHANGED <<held, ccall>>
    /\ UNCHANGED <<dlVars, tfVars, cmdVars, rmVars>>

\* remove_episode_from_device, lines 534-554: the call of remove_file.
RemoveEpisodeCall(c) ==
    /\ cpc[c] = "remove"
    /\ removal = NoRemoval
    /\ \E dev \in detect_devices :
         /\ dev.id = ccall[c].device_id
         /\ RemoveFile(dev.path, TitleFilename(episodes[ccall[c].episode_id]))

\* remove_episode_from_device, lines 550-566: remove_file's result, then the
\* on_device flag.
RemoveEpisodeReturned(c) ==
    /\ cpc[c] = "remove"
    /\ removal # NoRemoval
    /\ IF removal.kind = "Ok"
       THEN \/ /\ episodes' = update_episode_on_device_status(episodes,
                                  ccall[c].episode_id, FALSE)
               /\ Finish(c, CommandOk)
            \/ /\ Finish(c, CommandErr("Failed to update episode device status"))
               /\ UNCHANGED episodes
       ELSE /\ Finish(c, CommandErr("File removal failed: " \o to_string(removal.err)))
            /\ UNCHANGED episodes
    /\ removal' = NoRemoval
    /\ UNCHANGED <<removals, held, ccall>>
    /\ UNCHANGED <<report, commands, previous>>
    /\ UNCHANGED <<dlVars, tfVars, delVars, lockVars>>

\* The episodes table with one row, a local file, and a device that stays
\* plugged in (so transfer_file never finds the root of a detected device
\* missing). The row is one every command finds: its status is 'new' and
\* its id is also the id of its podcast.
AppInit ==
    /\ \E downloaded, on_device \in BOOLEAN, local_file_path \in {NoLocalPath, "/ep"} :
         /\ local_file_path # NoLocalPath => downloaded
         /\ episodes = (1 :> [downloaded |-> downloaded, local_file_path |-> local_file_path,
                           on_device |-> on_device, podcast_id |-> 1, title |-> "a",
                           status |-> "new",
                           episode_url |-> <<"h", "/", "e", ".", "m">>])
    /\ \E present \in SUBSET SourcePaths : sources = [p \in present |-> SourceContent(1)]
    /\ \E listed \in BOOLEAN, left \in SUBSET {"a.mp3"}, available \in {1, MaxSize} :
         device = [d \in DevicePaths |->
                     [exists |-> TRUE, listed |-> listed, available |-> available,
                      dir |-> TRUE, files |-> [f \in left |-> LeftOnDevice]]]
    /\ downloads = << >> /\ files = << >> /\ dirs = {} /\ httpRequests = 0
    /\ pc = [c \in Commands |-> "idle"] /\ call = [c \in Commands |-> NoCall]
    /\ loc = [c \in Commands |-> NoLoc] /\ ret = [c \in Commands |-> NoRet]
    /\ calls = 0
    /\ transfers = << >>
    /\ tpc = [c \in Commands |-> "idle"] /\ tcall = [c \in Commands |-> NoTCall]
    /\ tloc = [c \in Commands |-> NoTLoc] /\ tret = [c \in Commands |-> NoRet]
    /\ tcalls = 0
    /\ report = NoReport /\ commands = 0 /\ previous = ""
    /\ removal = NoRemoval /\ removals = 0 /\ deletion = NoDeletion /\ deletions = 0
    /\ mutexes = NoMutexHeld /\ managers = ManagerNames
    /\ held = NoneHeld /\ dbLock = NoHolder
    /\ cpc = [c \in Commands |-> "idle"] /\ ccall = [c \in Commands |-> NoCommand]
    /\ cret = [c \in Commands |-> NoResult]

AppNext ==
    \E c \in Commands :
       \/ CmdInvoke(c)
       \/ CmdLockDatabase(c)
       \/ DownloadEpisodeGet(c)
       \/ DownloadEpisodeCall(c)
       \/ DownloadEpisodeReturned(c)
       \/ GetDownloadProgress(c)
       \/ TransferEpisodeGet(c)
       \/ TransferEpisodeCall(c)
       \/ TransferEpisodeReturned(c)
       \/ TransferEpisodePanicked(c)
       \/ RemoveEpisodeGet(c)
       \/ RemoveEpisodeCall(c)
       \/ RemoveEpisodeReturned(c)
       \/ DlCreateDir(c)
       \/ DlAlreadyDownloaded(c)
       \/ DlPending(c)
       \/ DlCheckDiskSpace(c)
       \/ DlInProgress(c)
       \/ DlSend(c)
       \/ DlCreate(c)
       \/ DlChunk(c)
       \/ DlProgress(c)
       \/ DlSucceeded(c)
       \/ DlFailed(c)
       \/ TfSourceMissing(c)
       \/ TfMetadata(c)
       \/ TfInsufficientSpace(c)
       \/ TfCreateDir(c)
       \/ TfInProgress(c)
       \/ TfOpen(c)
       \/ TfCopy(c)
       \/ TfProgress(c)
       \/ TfSucceeded(c)
       \/ TfFailed(c)
       \/ SourceTruncated(c)
       \/ SourceAppended(c)

\* The download engine alone: a FileManager, no device, no episodes table.
InitDownload ==
    /\ DlInit
    /\ transfers = << >> /\ sources = << >> /\ device = [d \in DevicePaths |-> NoDevice]
    /\ tpc = [t \in Tasks |-> "idle"] /\ tcall = [t \in Tasks |-> NoTCall]
    /\ tloc = [t \in Tasks |-> NoTLoc] /\ tret = [t \in Tasks |-> NoRet] /\ tcalls = 0
    /\ episodes = << >> /\ report = NoReport /\ commands = 0 /\ previous = ""
    /\ removal = NoRemoval /\ removals = 0 /\ deletion = NoDeletion /\ deletions = 0
    /\ mutexes = NoMutexHeld /\ managers = ManagerNames
    /\ held = NoneHeld /\ dbLock = NoHolder
    /\ cpc = [c \in Commands |-> "idle"] /\ ccall = [c \in Commands |-> NoCommand]
    /\ cret = [c \in Commands |-> NoResult]

SpecDownload == InitDownload /\ [][DlNext]_vars

\* The download engine with its caller deleting episodes between downloads.
DeleteNext ==
    \E t \in Tasks :
       \/ DlStart(t)
       \/ DlCreateDir(t)
       \/ DlAlreadyDownloaded(t)
       \/ DlPending(t)
       \/ DlCheckDiskSpace(t)
       \/ DlInProgress(t)
       \/ DlSend(t)
       \/ DlCreate(t)
       \/ DlChunk(t)
       \/ DlProgress(t)
       \/ DlSucceeded(t)
       \/ DlFailed(t)
       \/ DeleteStart(t)
       \/ DeleteFile(t)
       \/ DeleteEntry(t)

SpecDelete == InitDownload /\ [][DeleteNext]_vars

\* The device transfer engine alone: a UsbManager, a FileManager nothing is
\* asked of, no episodes table.
InitTransfer ==
    /\ TfInit
    /\ downloads = << >> /\ files = << >> /\ dirs = {} /\ httpRequests = 0
    /\ pc = [t \in Tasks |-> "idle"] /\ call = [t \in Tasks |-> NoCall]
    /\ loc = [t \in Tasks |-> NoLoc] /\ ret = [t \in Tasks |-> NoRet] /\ calls = 0
    /\ episodes = << >> /\ report = NoReport /\ commands = 0 /\ previous = ""
    /\ removal = NoRemoval /\ removals = 0 /\ deletion = NoDeletion /\ deletions = 0
    /\ mutexes = NoMutexHeld /\ managers = ManagerNames
    /\ held = NoneHeld /\ dbLock = NoHolder
    /\ cpc = [c \in Commands |-> "idle"] /\ ccall = [c \in Commands |-> NoCommand]
    /\ cret = [c \in Commands |-> NoResult]

SpecTransfer == InitTransfer /\ [][TfNext]_vars

\* The device-status commands over the episodes table and a device; the
\* FileManager and the UsbManager's transfer table are not used.
InitSync ==
    /\ CmdInit
    /\ downloads = << >> /\ files = << >> /\ dirs = {} /\ httpRequests = 0
    /\ pc = [t \in Tasks |-> "idle"] /\ call = [t \in Tasks |-> NoCall]
    /\ loc = [t \in Tasks |-> NoLoc] /\ ret = [t \in Tasks |-> NoRet] /\ calls = 0
    /\ transfers = << >> /\ sources = << >>
    /\ tpc = [t \in Tasks |-> "idle"] /\ tcall = [t \in Tasks |-> NoTCall]
    /\ tloc = [t \in Tasks |-> NoTLoc] /\ tret = [t \in Tasks |-> NoRet] /\ tcalls = 0
    /\ removal = NoRemoval /\ removals = 0 /\ deletion = NoDeletion /\ deletions = 0
    /\ mutexes = NoMutexHeld /\ managers = ManagerNames
    /\ held = NoneHeld /\ dbLock = NoHolder
    /\ cpc = [c \in Commands |-> "idle"] /\ ccall = [c \in Commands |-> NoCommand]
    /\ cret = [c \in Commands |-> NoResult]

SpecSync == InitSync /\ [][CmdNext]_vars

\* The device transfer engine together with removals from the device.
RemoveNext ==
    \/ TfNext
    \/ \E device_path \in DevicePaths, filename \in Filenames :
          RemoveFile(device_path, filename)

SpecRemove == InitTransfer /\ [][RemoveNext]_vars

\* The derivation of the destination alone (lines 72-77 without the
\* directory's creation): URLs around the length limit, in one-byte and in
\* two-byte characters, with and without a '.', a '/', a query string.
Repeat(ch, n) == [i \in 1..n |-> ch]

NearLimit == (MaxFilenameLen - 4)..(MaxFilenameLen + 1)

FilenameUrls ==
    {<<"h", "/">> \o Repeat("a", n - 2) \o <<".", "m">> : n \in NearLimit}
    \cup {<<"h", "/">> \o Repeat("a", n) : n \in {0, 1, MaxFilenameLen}}
    \cup {<<"h", "/">> \o Repeat("é", n) \o <<".", "m">> : n \in {1, 126, 127, 128}}
    \cup { <<"h", "/", "e", ".", "m", "?", "t", "=", "a">>,
           <<"h", "/", "e", ".", "m", "?", "u", "=", "/", "f">>,
           <<"h", "/", "e", "?", "t", "=", "1", ".", "5">>,
           <<"h", ".", "c", "/", "e">>,
           <<"h", "/", "e", ".", "m", "/">>,
           <<"e", ".", "m">>,
           <<"e">>,
           <<"h", "/", ".">>,
           <<"h", "/", ".", ".">>,
           <<>> }

FilenameEpisodes == {1, 2, 42}
FilenamePodcasts == {1, 2}

InitFilename ==
    /\ \E url \in FilenameUrls, episode_id \in FilenameEpisodes, podcast_id \in FilenamePodcasts :
         call = [t \in Tasks |-> [episode_url |-> url, episode_id |-> episode_id,
                                   podcast_id |-> podcast_id]]
    /\ downloads = << >> /\ files = << >> /\ dirs = {} /\ httpRequests = 0
    /\ pc = [t \in Tasks |-> "idle"]
    /\ loc = [t \in Tasks |-> NoLoc] /\ ret = [t \in Tasks |-> NoRet] /\ calls = 0
    /\ transfers = << >> /\ sources = << >> /\ device = [d \in DevicePaths |-> NoDevice]
    /\ tpc = [t \in Tasks |-> "idle"] /\ tcall = [t \in Tasks |-> NoTCall]
    /\ tloc = [t \in Tasks |-> NoTLoc] /\ tret = [t \in Tasks |-> NoRet] /\ tcalls = 0
    /\ episodes = << >> /\ report = NoReport /\ commands = 0 /\ previous = ""
    /\ removal = NoRemoval /\ removals = 0 /\ deletion = NoDeletion /\ deletions = 0
    /\ mutexes = NoMutexHeld /\ managers = ManagerNames
    /\ held = NoneHeld /\ dbLock = NoHolder
    /\ cpc = [c \in Commands |-> "idle"] /\ ccall = [c \in Commands |-> NoCommand]
    /\ cret = [c \in Commands |-> NoResult]

\* Lines 72-77: podcast_dir.join(extract_filename_from_url(episode_url, episode_id)).
DeriveFilePath(t) ==
    /\ pc[t] = "idle"
    /\ Return(t, Ok(FilePath(call[t])))
    /\ UNCHANGED <<downloads, files, dirs, httpRequests, call, calls>>
    /\ UNCHANGED <<tfVars, cmdVars, rmVars, appVars>>

FilenameNext == \E t \in Tasks : DeriveFilePath(t)

SpecFilename == InitFilename /\ [][FilenameNext]_vars

\* Two callers of one FileManager, each with its own download_episode calls.
Pair == {"t1", "t2"}

InitPair ==
    /\ downloads = << >> /\ files = << >> /\ dirs = {} /\ httpRequests = 0
    /\ pc = [t \in Pair |-> "idle"] /\ call = [t \in Pair |-> NoCall]
    /\ loc = [t \in Pair |-> NoLoc] /\ ret = [t \in Pair |-> NoRet]
    /\ calls = 0
    /\ transfers = << >> /\ sources = << >> /\ device = [d \in DevicePaths |-> NoDevice]
    /\ tpc = [t \in Pair |-> "idle"] /\ tcall = [t \in Pair |-> NoTCall]
    /\ tloc = [t \in Pair |-> NoTLoc] /\ tret = [t \in Pair |-> NoRet] /\ tcalls = 0
    /\ episodes = << >> /\ report = NoReport /\ commands = 0 /\ previous = ""
    /\ removal = NoRemoval /\ removals = 0 /\ deletion = NoDeletion /\ deletions = 0
    /\ mutexes = NoMutexHeld /\ managers = ManagerNames
    /\ held = NoneHeld /\ dbLock = NoHolder
    /\ cpc = [c \in Commands |-> "idle"] /\ ccall = [c \in Commands |-> NoCommand]
    /\ cret = [c \in Commands |-> NoResult]

PairNext ==
    \E t \in Pair :
       \/ DlStart(t)
       \/ DlCreateDir(t)
       \/ DlAlreadyDownloaded(t)
       \/ DlPending(t)
       \/ DlCheckDiskSpace(t)
       \/ DlInProgress(t)
       \/ DlSend(t)
       \/ DlCreate(t)
       \/ DlChunk(t)
       \/ DlProgress(t)
       \/ DlSucceeded(t)
       \/ DlFailed(t)

SpecPair == InitPair /\ [][PairNext]_vars

\* The application: commands invoked by the front end, over both engines.
SpecApp == AppInit /\ [][AppNext]_vars

\* The application over every kind of row: the episode of any podcast, in
\* any listening status; the device is listed.
EpisodeStatuses == {"new", "unlistened", "listened"}
EpisodePodcasts == {1, 2}

LookupInit ==
    /\ \E downloaded, on_device \in BOOLEAN, podcast_id \in EpisodePodcasts, status \in EpisodeStatuses :
         episodes = (1 :> [downloaded |-> downloaded,
                           local_file_path |-> IF downloaded THEN "/ep" ELSE NoLocalPath,
                           on_device |-> on_device, podcast_id |-> podcast_id,
                           title |-> "a", status |-> status,
                           episode_url |-> <<"h", "/", "e", ".", "m">>])
    /\ \E present \in SUBSET SourcePaths : sources = [p \in present |-> SourceContent(1)]
    /\ \E left \in SUBSET {"a.mp3"}, available \in {1, MaxSize} :
         device = [d \in DevicePaths |->
                     [exists |-> TRUE, listed |-> TRUE, available |-> available,
                      dir |-> TRUE, files |-> [f \in left |-> LeftOnDevice]]]
    /\ downloads = << >> /\ files = << >> /\ dirs = {} /\ httpRequests = 0
    /\ pc = [c \in Commands |-> "idle"] /\ call = [c \in Commands |-> NoCall]
    /\ loc = [c \in Commands |-> NoLoc] /\ ret = [c \in Commands |-> NoRet]
    /\ calls = 0
    /\ transfers = << >>
    /\ tpc = [c \in Commands |-> "idle"] /\ tcall = [c \in Commands |-> NoTCall]
    /\ tloc = [c \in Commands |-> NoTLoc] /\ tret = [c \in Commands |-> NoRet]
    /\ tcalls = 0
    /\ report = NoReport /\ commands = 0 /\ previous = ""
    /\ removal = NoRemoval /\ removals = 0 /\ deletion = NoDeletion /\ deletions = 0
    /\ mutexes = NoMutexHeld /\ managers = ManagerNames
    /\ held = NoneHeld /\ dbLock = NoHolder
    /\ cpc = [c \in Commands |-> "idle"] /\ ccall = [c \in Commands |-> NoCommand]
    /\ cret = [c \in Commands |-> NoResult]

SpecLookup == LookupInit /\ [][AppNext]_vars

(***************************************************************************)
(* The global manager mutexes: which command takes which, in what order.   *)
(***************************************************************************)
LockingCommands ==
    {"initialize_managers", "add_podcast", "remove_podcast", "get_podcasts",
     "get_episodes", "update_episode_status", "download_episode",
     "transfer_episode_to_device", "remove_episode_from_device"}

\* A command that would take USB_MANAGER before DATABASE in the device
\* commands.
LockOrderOf_UsbFirst(name) ==
    CASE name = "initialize_managers"
           -> <<"DATABASE", "RSS_MANAGER", "FILE_MANAGER", "USB_MANAGER">>
      [] name = "add_podcast" -> <<"DATABASE", "RSS_MANAGER">>
      [] name \in {"transfer_episode_to_device", "remove_episode_from_device"}
           -> <<"USB_MANAGER", "DATABASE">>
      [] OTHER -> <<"DATABASE">>

\* The lock().await calls of each command, in program order: lines 101-110,
\* 126-129, 241, 255, 270, 291, 308, 400-403, 491-494.
LockOrderOf(name) ==
    CASE name = "initialize_managers"
           -> <<"DATABASE", "RSS_MANAGER", "FILE_MANAGER", "USB_MANAGER">>
      [] name = "add_podcast" -> <<"DATABASE", "RSS_MANAGER">>
      [] name \in {"transfer_episode_to_device", "remove_episode_from_device"}
           -> <<"DATABASE", "USB_MANAGER">>
      [] OTHER -> <<"DATABASE">>

Holder(m) == IF m = "DATABASE" THEN dbLock ELSE mutexes[m]
HeldBy(c) == {m \in ManagerNames : Holder(m) = c}

\* The mutex invocation c is at: the next of its command's lock() calls.
Wanted(c) == LockOrderOf(ccall[c].name)[Cardinality(HeldBy(c)) + 1]

\* ok_or("... not initialized") of each mutex a command locks
NotInitialized(m) ==
    CASE m = "DATABASE" -> "Database not initialized"
      [] m = "RSS_MANAGER" -> "RSS manager not initialized"
      [] OTHER -> "USB manager not initialized"

\* lock().await returns the guard of m to c.
Acquire(m, c) ==
    /\ dbLock' = IF m = "DATABASE" THEN c ELSE dbLock
    /\ mutexes' = [n \in DOMAIN mutexes |-> IF n = m THEN c ELSE mutexes[n]]

\* The guards of c go out of scope.
ReleaseAll(c) ==
    /\ dbLock' = IF dbLock = c THEN NoHolder ELSE dbLock
    /\ mutexes' = [n \in DOMAIN mutexes |-> IF mutexes[n] = c THEN NoHolder ELSE mutexes[n]]

\* lib.rs or the front end starts a command.
ManagersInvoke(c) ==
    /\ cpc[c] \in {"idle", "done"}
    /\ \E name \in LockingCommands :
         ccall' = [ccall EXCEPT ![c] = [NoCommand EXCEPT !.name = name]]
    /\ cpc' = [cpc EXCEPT ![c] = "locking"]
    /\ cret' = [cret EXCEPT ![c] = NoResult]
    /\ UNCHANGED <<held, dbLock, mutexes, managers>>
    /\ UNCHANGED <<dlVars, tfVars, cmdVars, removal, removals, delVars>>

\* The next lock().await of the command returns; initialize_managers stores
\* the manager, a command tests the Option and returns when it is None.
ManagersLock(c) ==
    /\ cpc[c] = "locking"
    /\ LET m == Wanted(c)
           order == LockOrderOf(ccall[c].name)
           last == Cardinality(HeldBy(c)) + 1 = Len(order)
       IN  /\ Holder(m) = NoHolder
           /\ IF ccall[c].name = "initialize_managers"
              THEN /\ managers' = managers \cup {m}
                   /\ IF last
                      THEN /\ ReleaseAll(c)
                           /\ cpc' = [cpc EXCEPT ![c] = "done"]
                           /\ cret' = [cret EXCEPT ![c] = CommandOk]
                      ELSE /\ Acquire(m, c)
                           /\ UNCHANGED <<cpc, cret>>
              ELSE IF m \notin managers
              THEN /\ ReleaseAll(c)
                   /\ cpc' = [cpc EXCEPT ![c] = "done"]
                   /\ cret' = [cret EXCEPT ![c] = CommandErr(NotInitialized(m))]
                   /\ UNCHANGED managers
              ELSE /\ Acquire(m, c)
                   /\ cpc' = [cpc EXCEPT ![c] = IF last THEN "body" ELSE "locking"]
                   /\ UNCHANGED <<cret, managers>>
    /\ UNCHANGED <<held, ccall>>
    /\ UNCHANGED <<dlVars, tfVars, cmdVars, removal, removals, delVars>>

\* The body of the command runs to its return, Ok or any of its errors.
ManagersReturn(c) ==
    /\ cpc[c] = "body"
    /\ \E r \in {CommandOk, CommandErr("failed")} : cret' = [cret EXCEPT ![c] = r]
    /\ ReleaseAll(c)
    /\ cpc' = [cpc EXCEPT ![c] = "done"]
    /\ UNCHANGED <<held, ccall, managers>>
    /\ UNCHANGED <<dlVars, tfVars, cmdVars, removal, removals, delVars>>

\* Start-up: no manager is stored yet, no command runs.
LocksInit ==
    /\ episodes = << >> /\ sources = << >> /\ device = [d \in DevicePaths |-> NoDevice]
    /\ downloads = << >> /\ files = << >> /\ dirs = {} /\ httpRequests = 0
    /\ pc = [c \in Commands |-> "idle"] /\ call = [c \in Commands |-> NoCall]
    /\ loc = [c \in Commands |-> NoLoc] /\ ret = [c \in Commands |-> NoRet]
    /\ calls = 0
    /\ transfers = << >>
    /\ tpc = [c \in Commands |-> "idle"] /\ tcall = [c \in Commands |-> NoTCall]
    /\ tloc = [c \in Commands |-> NoTLoc] /\ tret = [c \in Commands |-> NoRet]
    /\ tcalls = 0
    /\ report = NoReport /\ commands = 0 /\ previous = ""
    /\ removal = NoRemoval /\ removals = 0
    /\ deletion = NoDeletion /\ deletions = 0 /\ mutexes = NoMutexHeld /\ managers = {}
    /\ held = NoneHeld /\ dbLock = NoHolder
    /\ cpc = [c \in Commands |-> "idle"] /\ ccall = [c \in Commands |-> NoCommand]
    /\ cret = [c \in Commands |-> NoResult]

LocksNext ==
    \E c \in Commands :
       \/ ManagersInvoke(c)
       \/ ManagersLock(c)
       \/ ManagersReturn(c)

SpecLocks == LocksInit /\ [][LocksNext]_vars

(***************************************************************************)
(* Properties of the download engine (SpecDownload).                       *)
(***************************************************************************)
EpOf(t) == call[t].episode_id

\* C1 - Idempotent download: when the destination file already exists at
\* the existence test of download_episode, the call takes the short
\* circuit, and the short circuit sends no HTTP request, leaves every file
\* as it is, returns the existing file's path, and leaves the episode's
\* entry Completed at 100 percent.
C1_IdempotentDownload ==
    [][\A t \in Tasks :
         /\ (pc[t] = "mkdir" /\ Exists(FilePath(call[t])))
               => /\ pc'[t] = "already"
                  /\ httpRequests' = httpRequests
                  /\ files' = files
         /\ (pc[t] = "already" /\ pc'[t] # "already")
               => /\ pc'[t] = "done"
                  /\ httpRequests' = httpRequests
                  /\ files' = files
                  /\ ret'[t].kind = "Ok"
                  /\ ret'[t].path = FilePath(call[t])
                  /\ ret'[t].requests = 0
                  /\ EpOf(t) \in DOMAIN downloads'
                  /\ downloads'[EpOf(t)].status = Completed
                  /\ downloads'[EpOf(t)].percentage = Hundred]_vars

\* A second call, after a first one that fetched the file, has returned the
\* path without a request of its own.
C1_SecondCallReturned ==
    \E t \in Tasks :
       /\ pc[t] = "done" /\ calls = 2 /\ httpRequests = 1
       /\ ret[t].kind = "Ok" /\ ret[t].requests = 0
       /\ ret[t].path = FilePath(call[t])
       /\ Exists(FilePath(call[t])) /\ files[FilePath(call[t])] = Chunk(1)
       /\ downloads[EpOf(t)].status = Completed

\* C2 - Terminal states are absorbing: an entry of the download table or of
\* the transfer table whose status is Completed, Failed or Cancelled keeps
\* that status through every later step.
C2_TerminalAbsorbing ==
    [][/\ \A e \in DOMAIN downloads :
            Terminal(downloads[e].status)
               => e \in DOMAIN downloads' /\ downloads'[e].status = downloads[e].status
       /\ \A k \in DOMAIN transfers :
            Terminal(transfers[k].status)
               => k \in DOMAIN transfers' /\ transfers'[k].status = transfers[k].status]_vars

\* C3 - Failure is recorded before it is returned: when download_episode or
\* transfer_file has returned an error, the entry of that operation exists
\* and has status Failed.
C3_FailureRecorded ==
    /\ \A t \in Tasks :
          (pc[t] = "done" /\ ret[t].kind = "Err")
             => /\ EpOf(t) \in DOMAIN downloads
                /\ downloads[EpOf(t)].status.tag = "Failed"
    /\ \A t \in Tasks :
          (tpc[t] = "done" /\ tret[t].kind = "Err")
             => /\ KeyOf(tcall[t]) \in DOMAIN transfers
                /\ transfers[KeyOf(tcall[t])].status.tag = "Failed"

\* C4 - Progress monotonicity: from the creation of its entry through the
\* terminal update, no step of a download or of a transfer lowers the byte
\* count stored in the operation's entry.
C4_BytesMonotonic ==
    [][/\ \A t \in Tasks :
            (/\ pc[t] \notin {"idle", "done", "mkdir", "already", "pending"}
             /\ pc'[t] # pc[t]
             /\ EpOf(t) \in DOMAIN downloads /\ EpOf(t) \in DOMAIN downloads')
               => downloads'[EpOf(t)].downloaded_bytes >= downloads[EpOf(t)].downloaded_bytes
       /\ \A t \in Tasks :
            (/\ tpc[t] \notin {"idle", "done"}
             /\ tpc'[t] # tpc[t]
             /\ KeyOf(tcall[t]) \in DOMAIN transfers')
               => transfers'[KeyOf(tcall[t])].transferred_bytes
                     >= transfers[KeyOf(tcall[t])].transferred_bytes]_vars

(***************************************************************************)
(* Properties of the device transfer engine (SpecTransfer).                *)
(***************************************************************************)
\* The size of the source as the call read it, or will read it.
SizeRead(t) ==
    IF tpc[t] \in {"metadata", "no_source", "no_device"}
    THEN Len(sources[tcall[t].source_path])
    ELSE tloc[t].file_size

\* The source and the device root exist and the device has less room than
\* the source needs.
TooLittleSpace(t) ==
    /\ tcall[t].source_path \in DOMAIN sources
    /\ device[tcall[t].device_path].exists
    /\ device[tcall[t].device_path].available < SizeRead(t)

\* C5 - Space pre-flight ordering: while a transfer_file call runs with the
\* source and the device root present and less space available than the
\* source's size, no step creates the namespace directory or a destination
\* file or writes a byte to the device, and the call, unless the source's
\* size could not be read, returns the insufficient-space error.
C5_SpacePreflight ==
    [][\A t \in Tasks :
         (tpc[t] \notin {"idle", "done"} /\ tpc'[t] # tpc[t] /\ TooLittleSpace(t))
            => /\ device' = device
               /\ (tpc'[t] = "done" /\ tret'[t].err.msg # "Cannot read source file")
                     => tret'[t] = Err(InsufficientSpaceError(
                                         SizeRead(t),
                                         device[tcall[t].device_path].available))]_vars

\* C6 - Insufficient-space and missing-device errors are distinguishable: a
\* transfer_file call with the source present and the device root missing
\* returns the UsbDeviceNotFound error, and a call whose entry records the
\* insufficient-space failure returned an error of another kind.
C6_ErrorsDistinguishable ==
    \A t \in Tasks :
       tpc[t] = "done" =>
          /\ (/\ tcall[t].source_path \in DOMAIN sources
              /\ ~device[tcall[t].device_path].exists)
                => /\ tret[t].kind = "Err"
                   /\ tret[t].err.kind = "UsbDeviceNotFound"
                   /\ \A n, a \in 0..MaxSize :
                         tret[t].err.msg # InsufficientSpaceMessage(n, a)
          /\ (\E n, a \in 0..MaxSize :
                 transfers[KeyOf(tcall[t])].status = Failed(InsufficientSpaceMessage(n, a)))
                => /\ tret[t].kind = "Err"
                   /\ tret[t].err.kind = "FileTransferFailed"

\* A transfer to a missing device root, with the source present, has returned.
C6_MissingDeviceReturned ==
    \E t \in Tasks :
       /\ tpc[t] = "done"
       /\ tcall[t].source_path \in DOMAIN sources
       /\ ~device[tcall[t].device_path].exists
       /\ tret[t] = Err(DeviceNotFoundError(tcall[t].device_path))
       /\ transfers[KeyOf(tcall[t])].status.tag = "Failed"

(***************************************************************************)
(* Properties of the device-status commands (SpecSync).                    *)
(***************************************************************************)
\* The step is a run of the named command.
RanCommand(name) == commands' # commands /\ report'.command = name

HasFile(eps, e) == eps[e].local_file_path # NoPath

\* C7 - Reconciliation is one-directional: a run of sync_episode_device_status
\* sets no episode's on_device flag, and clears a flag only of an episode
\* whose expected file name is absent from the device scan.
C7_SyncOneDirectional ==
    [][RanCommand("sync") =>
         \A e \in DOMAIN episodes :
            /\ ~episodes[e].on_device => ~episodes'[e].on_device
            /\ (episodes[e].on_device /\ ~episodes'[e].on_device)
                  => /\ HasFile(episodes, e)
                     /\ FileNameOf(episodes[e].local_file_path)
                           \notin ScanDevice(report'.device_path)]_vars

\* A sync has run over a device that holds the file of an episode not marked
\* on_device, next to an episode that is marked.
C7_SyncRanOverUnmarkedFile ==
    /\ report.command = "sync"
    /\ \E e \in DOMAIN episodes :
          /\ ~episodes[e].on_device /\ HasFile(episodes, e)
          /\ FileNameOf(episodes[e].local_file_path) \in ScanDevice(report.device_path)
    /\ \E e \in DOMAIN episodes : episodes[e].on_device

\* The episodes a sync over the device has to clear.
Drifted(eps, device_path) ==
    { e \in DOMAIN eps : /\ eps[e].on_device /\ HasFile(eps, e)
                         /\ FileNameOf(eps[e].local_file_path) \notin ScanDevice(device_path) }

\* C8 - Sync repairs drift: a run of sync_episode_device_status leaves every
\* episode that was marked on_device with its file absent from the device
\* unmarked, and reports as updated_episodes the number of flags it cleared.
C8_SyncRepairsDrift ==
    [][RanCommand("sync") =>
         /\ \A e \in Drifted(episodes, report'.device_path) : ~episodes'[e].on_device
         /\ report'.updated_episodes = Cardinality(Drifted(episodes, report'.device_path))]_vars

\* C9 - Consistency report: a verify over the expected set E and the device
\* scan S reports files_found = |S|, database_episodes = |E|,
\* missing_from_device = E \ S, missing_from_database = S \ E, and
\* is_consistent exactly when both missing sets are empty.
C9_ConsistencyReport ==
    [][(RanCommand("verify") \/ RanCommand("usb_verify")) =>
         LET E == report'.expected
             S == ScanDevice(report'.device_path)
         IN  /\ report'.files_found = Cardinality(S)
             /\ report'.database_episodes = Cardinality(E)
             /\ report'.missing_from_device = E \ S
             /\ report'.missing_from_database = S \ E
             /\ report'.is_consistent = (E \ S = {} /\ S \ E = {})
             /\ (S = E => report'.is_consistent)]_vars

\* A verify has found one expected file gone from the device and one file
\* there that was not expected.
C9_VerifyFoundBothMissing ==
    /\ report.command = "usb_verify"
    /\ report.expected = {"a.mp3", "b.mp3"}
    /\ report.missing_from_device = {"b.mp3"}
    /\ report.missing_from_database = {"example.mp3"}
    /\ ~report.is_consistent
    /\ report.files_found = 2 /\ report.database_episodes = 2

\* C10 - The set the verify command compares with the device scan is the set
\* of file names of the local paths of the episodes marked on_device, and
\* database_episodes is the number of those file names.
C10_VerifyExpectedFromTable ==
    [][RanCommand("verify") =>
         /\ report'.expected = ExpectedFilenames(episodes)
         /\ report'.database_episodes = Cardinality(ExpectedFilenames(episodes))]_vars

\* C11 - Sync is idempotent: a run of sync_episode_device_status right after
\* a run of it over the same device, with the device's files as the first
\* run found them, changes nothing in the episodes table.  (Files are only
\* ever deleted from the device here, so an equal count is an equal scan.)
C11_SyncIdempotent ==
    [][(/\ report.command = "sync"
        /\ RanCommand("sync")
        /\ report'.device_path = report.device_path
        /\ report.processed_files = Cardinality(ScanDevice(report.device_path)))
          => episodes' = episodes]_vars

\* A second sync in a row has run over a device that misses the files of
\* two episodes marked on_device.
C11_SecondSyncRan ==
    /\ previous = "sync" /\ report.command = "sync"
    /\ Cardinality(Drifted(episodes, report.device_path)) = 2

(***************************************************************************)
(* The status of an entry from one state to the next.                      *)
(***************************************************************************)
TagIn(map, k) == IF k \in DOMAIN map THEN map[k].status.tag ELSE "None"

\* The entry of k is new in the next state, or its status differs.
StatusWritten(map, mapNext, k) ==
    k \notin DOMAIN map \/ mapNext[k].status # map[k].status

DerivedPercentage(bytes, total) ==
    IF total > 0 THEN Ratio(100 * bytes, total) ELSE Zero

\* C13 - Percentage is derived: every entry of the download table and of
\* the transfer table has percentage = 100 * bytes / total_bytes when
\* total_bytes > 0, and percentage = 0 when total_bytes = 0.
C13_PercentageDerived ==
    /\ \A e \in DOMAIN downloads :
          downloads[e].percentage
             = DerivedPercentage(downloads[e].downloaded_bytes, downloads[e].total_bytes)
    /\ \A k \in DOMAIN transfers :
          transfers[k].percentage
             = DerivedPercentage(transfers[k].transferred_bytes, transfers[k].total_bytes)

\* C14 - Bounded counters: every entry whose total_bytes is known (> 0) has
\* bytes <= total_bytes and percentage <= 100, and the subtraction
\* total - transferred of the ETA never underflows.
C14_BoundedCounters ==
    /\ \A e \in DOMAIN downloads :
          downloads[e].total_bytes > 0
             => /\ downloads[e].downloaded_bytes <= downloads[e].total_bytes
                /\ ~RatLt(Hundred, downloads[e].percentage)
    /\ \A k \in DOMAIN transfers :
          /\ transfers[k].total_bytes > 0
                => /\ transfers[k].transferred_bytes <= transfers[k].total_bytes
                   /\ ~RatLt(Hundred, transfers[k].percentage)
          /\ transfers[k].eta_seconds # WrappedEta
    /\ \A t \in Tasks : tpc[t] # "panicked"

\* C15 - ETA presence: an entry of the download table or of the transfer
\* table has eta_seconds present only while its status is InProgress and its
\* speed is above 0.
C15_EtaPresence ==
    /\ \A e \in DOMAIN downloads :
          downloads[e].eta_seconds.some
             => /\ downloads[e].status.tag = "InProgress"
                /\ RatLt(Zero, downloads[e].speed_bytes_per_sec)
    /\ \A k \in DOMAIN transfers :
          transfers[k].eta_seconds.some
             => /\ transfers[k].status.tag = "InProgress"
                /\ RatLt(Zero, transfers[k].speed_bytes_per_sec)

\* C16 - No content length: when the response declared no content length,
\* every step of the download from the first chunk on, the terminal update
\* included, leaves the entry with total_bytes = 0 and percentage = 0, and
\* a progress update stores the bytes received so far in downloaded_bytes.
C16_NoContentLength ==
    [][\A t \in Tasks :
         (/\ pc[t] \in {"stream", "progress", "succeeded", "failed"}
          /\ pc'[t] # pc[t]
          /\ loc[t].total_size = 0 /\ loc[t].downloaded > 0
          /\ EpOf(t) \in DOMAIN downloads')
            => /\ downloads'[EpOf(t)].total_bytes = 0
               /\ downloads'[EpOf(t)].percentage = Zero
               /\ pc[t] = "progress"
                     => downloads'[EpOf(t)].downloaded_bytes = loc[t].downloaded]_vars

(***************************************************************************)
(* Properties of removal from the device (SpecRemove).                     *)
(***************************************************************************)
\* The step is a call of remove_file.
RemoveCalled == removals' # removals

\* C17 - Removal of a missing file is an error: remove_file on a device root
\* that does not exist returns UsbDeviceNotFound; on a root that exists
\* without the file <device>/PodPico/<filename> it returns an error that
\* names the file; in both cases nothing on the device changes.
C17_RemoveMissingIsError ==
    [][RemoveCalled =>
         LET d == removal'.device_path
             f == removal'.filename
         IN  /\ ~device[d].exists
                   => /\ removal'.kind = "Err"
                      /\ removal'.err = Error("UsbDeviceNotFound", d)
                      /\ device' = device
             /\ (device[d].exists /\ ~OnDevice(d, f))
                   => /\ removal'.kind = "Err"
                      /\ removal'.err.kind = "FileTransferFailed"
                      /\ removal'.err.msg
                            = "Episode file '" \o f \o "' not found on device"
                      /\ device' = device]_vars

\* A removal of a file that is not on the device has failed, while the
\* device holds another file.
C17_MissingFileRefused ==
    /\ removal.kind = "Err"
    /\ removal.err.kind = "FileTransferFailed"
    /\ device[removal.device_path].exists
    /\ device[removal.device_path].dir
    /\ removal.filename \notin DOMAIN device[removal.device_path].files
    /\ DOMAIN device[removal.device_path].files # {}

\* C18 - Removal frame: a successful remove_file deletes the file
\* <device>/PodPico/<filename> and nothing else: the namespace directory
\* stays, every other file on the device is as it was, and the transfer
\* table is unchanged.
C18_RemovalFrame ==
    [][(RemoveCalled /\ removal'.kind = "Ok") =>
         LET d == removal'.device_path
             f == removal'.filename
         IN  /\ OnDevice(d, f)
             /\ device'[d].exists /\ device'[d].dir
             /\ DOMAIN device'[d].files = DOMAIN device[d].files \ {f}
             /\ \A g \in DOMAIN device'[d].files : device'[d].files[g] = device[d].files[g]
             /\ \A o \in DOMAIN device : o # d => device'[o] = device[o]
             /\ device'[d].listed = device[d].listed
             /\ device'[d].available = device[d].available
             /\ transfers' = transfers]_vars

\* The last file has been removed after a transfer: the namespace directory
\* is empty and the transfer table still has its entry.
C18_LastFileRemoved ==
    /\ removal.kind = "Ok"
    /\ device[removal.device_path].dir
    /\ DOMAIN device[removal.device_path].files = {}
    /\ DOMAIN transfers # {}

(***************************************************************************)
(* Properties of transfer_file's validation and result (SpecTransfer).     *)
(***************************************************************************)
\* The step is the return of the transfer_file call of t.
TransferReturned(t) == tpc[t] # "done" /\ tpc'[t] = "done"

\* The step belongs to a call that found its source or its device missing.
ValidationStep(t) ==
    \/ tpc[t] \in {"no_source", "no_device"}
    \/ tpc'[t] \in {"no_source", "no_device"}

\* C19 - Transfer validation: transfer_file checks the source before the
\* device.  A call whose source does not exist sets its entry to Failed and
\* returns a source-not-found error holding the source path, whether or not
\* the device exists; a call whose source exists and whose device root does
\* not sets its entry to Failed and returns UsbDeviceNotFound; no step of
\* such a call changes anything on a device.
C19_TransferValidation ==
    [][\A t \in Tasks :
         LET c == tcall[t]
             k == KeyOf(c)
         IN  /\ (TransferReturned(t) /\ c.source_path \notin DOMAIN sources)
                   => /\ tret'[t].kind = "Err"
                      /\ tret'[t].err = Error("FileTransferFailed",
                             "Source file not found: " \o c.source_path)
                      /\ k \in DOMAIN transfers'
                      /\ transfers'[k].status.tag = "Failed"
             /\ (TransferReturned(t) /\ c.source_path \in DOMAIN sources
                                     /\ ~device[c.device_path].exists)
                   => /\ tret'[t].kind = "Err"
                      /\ tret'[t].err = Error("UsbDeviceNotFound", c.device_path)
                      /\ k \in DOMAIN transfers'
                      /\ transfers'[k].status.tag = "Failed"
             /\ ValidationStep(t) => device' = device]_vars

\* A call with neither source nor device has returned the source's error.
C19_BothMissingReturned ==
    \E t \in Tasks :
        /\ tpc[t] = "done"
        /\ tcall[t].source_path \notin DOMAIN sources
        /\ ~device[tcall[t].device_path].exists
        /\ tret[t].kind = "Err"
        /\ tret[t].err.kind = "FileTransferFailed"
        /\ KeyOf(tcall[t]) \in DOMAIN transfers
        /\ transfers[KeyOf(tcall[t])].status.tag = "Failed"

\* C20 - Successful transfer: whenever transfer_file returns Ok, the file
\* <device>/PodPico/<filename> exists with the content of the source file,
\* and the call's entry is Completed with transferred_bytes and total_bytes
\* both equal to the size of the source.
C20_SuccessfulTransfer ==
    [][\A t \in Tasks :
         (TransferReturned(t) /\ tret'[t].kind = "Ok") =>
             LET c == tcall[t]
                 k == KeyOf(c)
             IN  /\ c.source_path \in DOMAIN sources'
                 /\ device'[c.device_path].dir
                 /\ c.filename \in DOMAIN device'[c.device_path].files
                 /\ device'[c.device_path].files[c.filename] = sources'[c.source_path]
                 /\ k \in DOMAIN transfers'
                 /\ transfers'[k].status.tag = "Completed"
                 /\ transfers'[k].total_bytes = Len(sources'[c.source_path])
                 /\ transfers'[k].transferred_bytes = Len(sources'[c.source_path])]_vars

(***************************************************************************)
(* Failed calls of both engines under the commands (SpecApp).              *)
(***************************************************************************)
\* The errors of download_with_progress that arise after File::create
\* succeeded (lines 200-241), and those of transfer_with_progress that arise
\* after File::create succeeded (usb_manager.rs lines 307-357).
AfterCreate == {"Download stream error", "Failed to write file", "Failed to sync file"}
AfterOpen == {"Read error", "Write error", "Flush error"}

\* C29 - No rollback: when download_episode or transfer_file returns an
\* error that arose after the destination file was created, the returning
\* step leaves the destination as it was, and the destination holds exactly
\* the bytes the call wrote before the failure.
C29_NoRollback ==
    [][\A c \in Commands :
         /\ (pc[c] # "done" /\ pc'[c] = "done" /\ ret'[c].kind = "Err"
                 /\ ret'[c].err.msg \in AfterCreate) =>
               LET path == FilePath(call[c])
               IN  /\ path \in DOMAIN files /\ path \in DOMAIN files'
                   /\ files'[path] = files[path]
                   /\ files'[path] = Chunk(loc[c].downloaded)
         /\ (tpc[c] # "done" /\ tpc'[c] = "done" /\ tret'[c].kind = "Err"
                 /\ tret'[c].err.msg \in AfterOpen) =>
               LET on == device'[tcall[c].device_path].files
                   name == tcall[c].filename
               IN  /\ device' = device
                   /\ name \in DOMAIN on
                   /\ Len(on[name]) = tloc[c].transferred]_vars

\* A download has returned a stream error and the bytes received before it
\* are in the destination file.
C29_PartialDownloadLeft ==
    \E c \in Commands :
       /\ pc[c] = "done" /\ ret[c].kind = "Err"
       /\ ret[c].err.msg = "Download stream error"
       /\ FilePath(call[c]) \in DOMAIN files
       /\ Len(files[FilePath(call[c])]) > 0

\* A transfer has returned a write error and the bytes copied before it are
\* in the destination file on the device.
C29_PartialTransferLeft ==
    \E c \in Commands :
       /\ tpc[c] = "done" /\ tret[c].kind = "Err"
       /\ tret[c].err.msg = "Write error"
       /\ tcall[c].filename \in DOMAIN device[tcall[c].device_path].files
       /\ Len(device[tcall[c].device_path].files[tcall[c].filename]) > 0

(***************************************************************************)
(* The destination's name (SpecFilename).                                  *)
(***************************************************************************)
\* segment is the text of url after its last '/', the whole of url when it
\* has none.
LastSegment(url, segment) ==
    \E k \in 0..Len(url) :
       /\ k = 0 \/ url[k] = "/"
       /\ \A i \in (k + 1)..Len(url) : url[i] # "/"
       /\ segment = SubSeq(url, k + 1, Len(url))

\* The path the derivation returned is podcast_id joined with name.
DerivedAs(t, name) == ret[t].path = <<call[t].podcast_id, name>>

\* C30 - Filename derivation: for every URL and episode id, the destination
\* filename is the text after the last '/' of the URL (query string
\* included) when that text contains a '.' and its UTF-8 encoding is shorter
\* than 255 bytes, and '<episode_id>.mp3' otherwise; the destination is
\* that filename under the podcast's directory.
C30_FilenameDerivation ==
    \A t \in Tasks :
       (pc[t] = "done" /\ ret[t].kind = "Ok") =>
          \E segment \in {SubSeq(call[t].episode_url, k + 1, Len(call[t].episode_url)) :
                               k \in 0..Len(call[t].episode_url)} :
             /\ LastSegment(call[t].episode_url, segment)
             /\ IF (\E i \in 1..Len(segment) : segment[i] = ".")
                       /\ ByteLen(segment) < 255
                THEN DerivedAs(t, segment)
                ELSE DerivedAs(t, <<ToString(call[t].episode_id), ".", "m", "p", "3">>)

\* C30 as stated, with the length counted in characters: the filename is
\* the last segment when it contains a '.' and has fewer than 255
\* characters, and '<episode_id>.mp3' otherwise.
C30_FilenameByCharacters ==
    \A t \in Tasks :
       (pc[t] = "done" /\ ret[t].kind = "Ok") =>
          \E segment \in {SubSeq(call[t].episode_url, k + 1, Len(call[t].episode_url)) :
                               k \in 0..Len(call[t].episode_url)} :
             /\ LastSegment(call[t].episode_url, segment)
             /\ IF (\E i \in 1..Len(segment) : segment[i] = ".")
                       /\ Len(segment) < 255
                THEN DerivedAs(t, segment)
                ELSE DerivedAs(t, <<ToString(call[t].episode_id), ".", "m", "p", "3">>)

\* A last segment of 129 characters that take 256 bytes was replaced by
\* '<episode_id>.mp3'.
C30_LongInBytesFallsBack ==
    \E t \in Tasks :
       /\ pc[t] = "done" /\ ret[t].kind = "Ok"
       /\ call[t].episode_url = <<"h", "/">> \o Repeat("é", 127) \o <<".", "m">>
       /\ ret[t].path = <<call[t].podcast_id, <<ToString(call[t].episode_id), ".", "m", "p", "3">>>>

(***************************************************************************)
(* The entry a transfer leaves behind when it returns (SpecTransfer).      *)
(***************************************************************************)
\* C33 - Transfer termination: when a transfer_file call returns, its
\* progress entry is in a terminal status, Completed when it returns Ok and
\* Failed when it returns an error; it is not left Pending or InProgress.
C33_ReturnsTerminal ==
    [][\A t \in Tasks :
         TransferReturned(t) =>
            LET key == KeyOf(tcall[t])
            IN  /\ key \in DOMAIN transfers'
                /\ tret'[t].kind = "Ok" => transfers'[key].status = Completed
                /\ tret'[t].kind = "Err" => transfers'[key].status.tag = "Failed"]_vars

(***************************************************************************)
(* A response that is not a success (SpecDownload).                        *)
(***************************************************************************)
\* C34 - Non-2xx responses create nothing: when download_episode returns
\* the error of a non-success status, the error is a NetworkError, the
\* episode's entry is Failed and there is no file at the destination; and
\* when the caller then starts a download with the same destination, there
\* is still no file there for the already-downloaded test to find.
C34_HttpErrorCreatesNothing ==
    [][\A t \in Tasks :
         /\ (pc[t] # "done" /\ pc'[t] = "done" /\ ret'[t].err.msg = "HTTP error") =>
               /\ ret'[t].kind = "Err" /\ ret'[t].err.kind = "NetworkError"
               /\ EpOf(t) \in DOMAIN downloads'
               /\ downloads'[EpOf(t)].status.tag = "Failed"
               /\ FilePath(call[t]) \notin DOMAIN files'
         /\ (pc[t] = "done" /\ pc'[t] = "mkdir" /\ ret[t].err.msg = "HTTP error"
                 /\ FilePath(call'[t]) = FilePath(call[t])) =>
               FilePath(call'[t]) \notin DOMAIN files']_vars

\* The retry of a download that got a non-success status is past the
\* already-downloaded test, with the first call's Failed entry still there.
C34_RetryFetchesAgain ==
    \E t \in Tasks :
       /\ calls = 2 /\ pc[t] = "pending"
       /\ EpOf(t) \in DOMAIN downloads
       /\ downloads[EpOf(t)].status
             = Failed(to_string(Error("NetworkError", "HTTP error")))

(***************************************************************************)
(* Deleting downloaded episodes (SpecDelete).                              *)
(***************************************************************************)
\* The step is the return of Ok(()) by delete_episode.
DeleteReturnedOk == deletion.kind = "None" /\ deletion'.kind = "Ok"

\* C31 - Deleting a downloaded episode: when delete_episode(podcast_id,
\* episode_id) returns Ok after the caller's last download_episode streamed
\* that episode to a file and returned it, that file no longer exists and
\* the episode has no entry in the downloads table.
C31_DeleteRemovesDownload ==
    [][\A t \in Tasks :
         (DeleteReturnedOk /\ ret[t].kind = "Ok" /\ ret[t].requests > 0
             /\ call[t].podcast_id = deletion.podcast_id
             /\ call[t].episode_id = deletion.episode_id) =>
               /\ ret[t].path \notin DOMAIN files'
               /\ deletion.episode_id \notin DOMAIN downloads']_vars

(***************************************************************************)
(* The order of the manager locks (SpecLocks).                             *)
(***************************************************************************)
\* The position of each mutex in the one order: that of the declarations.
Rank(m) ==
    CASE m = "DATABASE" -> 1
      [] m = "RSS_MANAGER" -> 2
      [] m = "FILE_MANAGER" -> 3
      [] OTHER -> 4

\* Invocation c waits for a mutex that invocation d holds.
WaitsFor(c, d) == cpc[c] = "locking" /\ Holder(Wanted(c)) = d

\* C38 - Deadlock freedom of the manager locks: every invocation asks for a
\* mutex that comes later in the one order DATABASE, RSS_MANAGER,
\* FILE_MANAGER, USB_MANAGER than every mutex it holds; no two invocations
\* each wait for a mutex the other holds; and an invocation that has not
\* started or has returned, with Ok or with an error, holds no mutex.
C38_ManagerLocksOrdered ==
    \A c \in Commands :
       /\ cpc[c] = "locking" => \A m \in HeldBy(c) : Rank(m) < Rank(Wanted(c))
       /\ \A d \in Commands \ {c} : ~ (WaitsFor(c, d) /\ WaitsFor(d, c))
       /\ cpc[c] \in {"idle", "done"} => HeldBy(c) = {}

\* A device command waits for DATABASE while another invocation holds it
\* together with a second mutex.
C38_WaitingBehindHolder ==
    \E c, d \in Commands :
       /\ c # d /\ WaitsFor(d, c)
       /\ ccall[d].name = "transfer_episode_to_device"
       /\ Cardinality(HeldBy(c)) >= 2

(***************************************************************************)
(* The commands' lookup of the episode (SpecLookup).                       *)
(***************************************************************************)
\* Invocation c of the command name takes the step after get_episodes
\* returned its rows.
LookedUp(c, name) ==
    /\ cpc[c] = "get" /\ cpc'[c] # "get"
    /\ ccall[c].name = name
    /\ cret'[c].msg # "Failed to get episode"

\* C36 - Episode lookup by id in device commands: transfer_episode_to_device
\* and remove_episode_from_device fail with 'Episode <id> not found' exactly
\* when no episode with that id is stored, whatever the podcast of a stored
\* episode.
C36_DeviceCommandsFindEpisode ==
    [][\A c \in Commands :
         (LookedUp(c, "transfer_episode_to_device")
             \/ LookedUp(c, "remove_episode_from_device")) =>
            (cret'[c] = CommandErr("Episode " \o ToString(ccall[c].episode_id) \o " not found")
                <=> ccall[c].episode_id \notin DOMAIN episodes)]_vars

\* C37 - Episode lookup by id in the download command: download_episode
\* fails with 'Episode not found' exactly when no episode with that id is
\* stored, whatever the listening status of a stored episode.
C37_DownloadFindsEpisode ==
    [][\A c \in Commands :
         LookedUp(c, "download_episode") =>
            (cret'[c] = CommandErr("Episode not found")
                <=> ccall[c].episode_id \notin DOMAIN episodes)]_vars

(***************************************************************************)
(* A download retried after a failure in mid-stream (SpecApp).             *)
(***************************************************************************)
\* The download_episode command d of episode e has returned the error of a
\* stream that broke off, or of a chunk that could not be written: the body
\* it was fetching is not whole in the file it created.
BrokeOff(d, e) ==
    /\ cpc[d] = "done" /\ ccall[d].name = "download_episode" /\ ccall[d].episode_id = e
    /\ cret[d] \in {CommandErr("Download failed: " \o to_string(err)) :
                       err \in {Error("NetworkError", "Download stream error"),
                                 Error("IoError", "Failed to write file")}}

\* C35 - Completed means complete: a download_episode call that returns Ok
\* after an earlier download of the same episode broke off in mid-stream
\* has fetched the body again; it does not return the file the broken
\* download left behind.
C35_CompletedMeansComplete ==
    [][\A c, d \in Commands :
         (c # d /\ pc[c] # "done" /\ pc'[c] = "done" /\ ret'[c].kind = "Ok"
              /\ BrokeOff(d, EpOf(c))) =>
            ret'[c].requests > 0]_vars

(***************************************************************************)
(* The order of completion in both engines (SpecApp).                      *)
(***************************************************************************)
\* The step stores Completed in an entry of table that was not Completed.
BecomesCompleted(table, key) ==
    /\ key \in DOMAIN table' /\ table'[key].status = Completed
    /\ key \notin DOMAIN table \/ table[key].status # Completed

Active(t) == pc[t] \notin {"idle", "done"}

\* The step creates the file at path or changes its bytes.
Written(path) == path \in DOMAIN files' /\ (path \notin DOMAIN files \/ files'[path] # files[path])

\* C24 - Non-interference: while two download_episode calls for different
\* episode ids are running, a file that a step creates or writes is the
\* destination of one of them only, and a progress entry that a step stores
\* is the entry of one of them only.
C24_NonInterference ==
    [][\A t, u \in Pair :
         (t # u /\ Active(t) /\ Active(u) /\ EpOf(t) # EpOf(u)) =>
             /\ ~ (Written(FilePath(call[t])) /\ FilePath(call[t]) = FilePath(call[u]))
             /\ downloads' # downloads =>
                   \/ \A e \in DOMAIN downloads' \ {EpOf(t)} :
                         e \in DOMAIN downloads /\ downloads'[e] = downloads[e]
                   \/ \A e \in DOMAIN downloads' \ {EpOf(u)} :
                         e \in DOMAIN downloads /\ downloads'[e] = downloads[e]]_vars

(***************************************************************************)
(* Results of the download engine (SpecDownload).                          *)
(***************************************************************************)
\* The step is the return of the download_episode call of t.
DownloadReturned(t) == pc[t] # "done" /\ pc'[t] = "done"

\* C21 - Successful download: whenever download_episode returns Ok(path),
\* path is the destination under the podcast's directory and the file is
\* there, the episode's entry is Completed at 100 percent, and the call
\* either took the already-exists short circuit (no request, the file as it
\* was) or streamed the body to its end and synced it (one request, the
\* file holds the bytes received).
C21_SuccessfulDownload ==
    [][\A t \in Tasks :
         (DownloadReturned(t) /\ ret'[t].kind = "Ok") =>
             LET path == FilePath(call[t])
             IN  /\ ret'[t].path = path
                 /\ path[1] = call[t].podcast_id
                 /\ path[1] \in dirs'
                 /\ path \in DOMAIN files'
                 /\ EpOf(t) \in DOMAIN downloads'
                 /\ downloads'[EpOf(t)].status = Completed
                 /\ downloads'[EpOf(t)].percentage = Hundred
                 /\ \/ /\ pc[t] = "already"
                       /\ ret'[t].requests = 0
                       /\ files' = files
                    \/ /\ pc[t] = "succeeded"
                       /\ ret'[t].requests = 1
                       /\ files'[path] = Chunk(loc[t].downloaded)]_vars

\* A call has returned Ok after streaming a body of two bytes.
C21_StreamedAndReturned ==
    \E t \in Tasks :
       /\ pc[t] = "done" /\ ret[t].kind = "Ok" /\ ret[t].requests = 1
       /\ FilePath(call[t]) \in DOMAIN files
       /\ files[FilePath(call[t])] = Chunk(2)
       /\ downloads[EpOf(t)].status = Completed

Polled(c) == cpc[c] = "poll" /\ cpc'[c] = "done"

\* C23 - Progress is observable by a poller: a get_download_progress
\* command returns the percentage stored in the entry of the running
\* download of that episode, and 0 only when there is no entry.
C23_PollSeesProgress ==
    [][\A c \in Commands :
         Polled(c) =>
            LET episode_id == ccall[c].episode_id
            IN  /\ cret'[c].kind = "Ok"
                /\ cret'[c].value = IF episode_id \in DOMAIN downloads
                                    THEN downloads[episode_id].percentage
                                    ELSE Zero]_vars

\* The engine call of invocation c has returned to the command.
EngineOk(c) ==
    \/ ccall[c].name = "download_episode" /\ cpc[c] = "engine" /\ ret[c].kind = "Ok"
    \/ ccall[c].name = "transfer_episode_to_device" /\ cpc[c] = "engine"
          /\ tret[c].kind = "Ok"
    \/ ccall[c].name = "remove_episode_from_device" /\ cpc[c] = "remove"
          /\ removal.kind = "Ok"

\* What the table is after invocation c recorded its success.
Persisted(c) ==
    IF ccall[c].name = "download_episode"
    THEN update_episode_downloaded_status(episodes, ccall[c].episode_id, TRUE,
                                          PathString(ret[c].path))
    ELSE update_episode_on_device_status(episodes, ccall[c].episode_id,
             ccall[c].name = "transfer_episode_to_device")

\* C25 - Persistence follows success only: the episodes table changes only
\* in the step in which a command returns Ok after its engine call returned
\* Ok, and then to downloaded = true with the returned path (download), to
\* on_device = true (transfer) or to on_device = false (removal); a command
\* that returns an error leaves the table as it was.
C25_PersistenceFollowsSuccess ==
    [][/\ episodes' # episodes =>
             \E c \in Commands :
                /\ EngineOk(c)
                /\ cpc'[c] = "done" /\ cret'[c].kind = "Ok"
                /\ episodes' = Persisted(c)
       /\ \A c \in Commands :
             (cpc[c] # "done" /\ cpc'[c] = "done" /\ cret'[c].kind = "Err")
                => episodes' = episodes]_vars

\* A download command has recorded the file its engine fetched.
C25_DownloadRecorded ==
    \E c \in Commands :
       /\ cpc[c] = "done" /\ cret[c].kind = "Ok"
       /\ ccall[c].name = "download_episode"
       /\ httpRequests = 1
       /\ episodes[1].downloaded
       /\ episodes[1].local_file_path = "./episodes/1/e.m"

\* Invocation c takes the step that follows the read of the episode's row.
RowRead(c, name) ==
    /\ cpc[c] = "get" /\ cpc'[c] # "get"
    /\ ccall[c].name = name
    /\ ccall[c].episode_id \in DOMAIN episodes
    /\ cret'[c].msg # "Failed to get episode"

\* Nothing on a device, in the tables or on disk changes, and no engine is
\* called.
NothingDone ==
    /\ device' = device /\ episodes' = episodes
    /\ transfers' = transfers /\ downloads' = downloads
    /\ files' = files /\ httpRequests' = httpRequests
    /\ calls' = calls /\ tcalls' = tcalls /\ removals' = removals

InFlight(c) == cpc[c] = "engine"

\* C28 - Single writer per destination at the command layer: no two
\* invocations have a download of the same episode in flight at the same
\* time, nor a transfer of the same episode to the same device.
C28_SingleWriter ==
    \A c, d \in Commands :
       (c # d /\ InFlight(c) /\ InFlight(d))
          => \/ ccall[c].name # ccall[d].name
             \/ ccall[c].episode_id # ccall[d].episode_id
             \/ /\ ccall[c].name = "transfer_episode_to_device"
                /\ ccall[c].device_id # ccall[d].device_id

\* A second download command of the episode waits for the DATABASE mutex
\* while the first one streams.
C28_SecondDownloadWaits ==
    \E c, d \in Commands :
       /\ c # d
       /\ ccall[c].name = "download_episode" /\ InFlight(c) /\ pc[c] = "stream"
       /\ ccall[d].name = "download_episode" /\ cpc[d] = "lock"
       /\ ccall[d].episode_id = ccall[c].episode_id
       /\ dbLock = c

(***************************************************************************)
(* The keys of the transfer table.  Two transfer_file calls name paths     *)
(* drawn from sets in which one path holds the "_" that joins the key;     *)
(* no source file exists, so each call inserts its entry and returns at    *)
(* the check of the source (lines 184-214).                                *)
(***************************************************************************)
KeySources == {"/a", "/a_/b"}
KeyDevices == {"/c", "/b_/c"}

\* Lines 172-203 of transfer_file, called with the paths above: the entry is
\* inserted under format!("{}_{}", source_path, device_path) before any check.
TransferFileCalled(t) ==
    /\ tpc[t] \in {"idle", "done"}
    /\ Locked("transfers")
    /\ tcalls < MaxTransfers
    /\ tcalls' = tcalls + 1
    /\ \E source_path \in KeySources, device_path \in KeyDevices, filename \in Filenames :
         LET c == [source_path |-> source_path, device_path |-> device_path,
                   filename |-> filename]
         IN  /\ tcall' = [tcall EXCEPT ![t] = c]
             /\ transfers' = Insert(transfers, KeyOf(c),
                    TransferProgress(device_path, 0, 0, Zero, Zero, NoEta, Pending))
             /\ source_path \notin DOMAIN sources
             /\ SetTpc(t, "no_source")
    /\ tret' = [tret EXCEPT ![t] = NoRet]
    /\ tloc' = [tloc EXCEPT ![t] = NoTLoc]
    /\ UNCHANGED <<sources, device>>
    /\ UNCHANGED <<dlVars, cmdVars, rmVars, appVars>>

KeysInit ==
    /\ downloads = << >> /\ files = << >> /\ dirs = {} /\ httpRequests = 0
    /\ pc = [t \in Pair |-> "idle"] /\ call = [t \in Pair |-> NoCall]
    /\ loc = [t \in Pair |-> NoLoc] /\ ret = [t \in Pair |-> NoRet]
    /\ calls = 0
    /\ transfers = << >> /\ sources = << >> /\ device = [d \in KeyDevices |-> NoDevice]
    /\ tpc = [t \in Pair |-> "idle"] /\ tcall = [t \in Pair |-> NoTCall]
    /\ tloc = [t \in Pair |-> NoTLoc] /\ tret = [t \in Pair |-> NoRet] /\ tcalls = 0
    /\ episodes = << >> /\ report = NoReport /\ commands = 0 /\ previous = ""
    /\ removal = NoRemoval /\ removals = 0 /\ deletion = NoDeletion /\ deletions = 0
    /\ mutexes = NoMutexHeld /\ managers = ManagerNames
    /\ held = NoneHeld /\ dbLock = NoHolder
    /\ cpc = [c \in Commands |-> "idle"] /\ ccall = [c \in Commands |-> NoCommand]
    /\ cret = [c \in Commands |-> NoResult]

KeysNext ==
    \E t \in Pair :
       \/ TransferFileCalled(t)
       \/ TfSourceMissing(t)

SpecKeys == KeysInit /\ [][KeysNext]_vars

\* C39 - Transfer entries do not alias: transfer_file calls with different
\* (source path, device path) pairs use different keys of the progress
\* table, and every entry of the table names an episode of the database
\* (ids start at 1) and the device path of a call that keyed it.
C39_TransferEntriesDoNotAlias ==
    /\ \A t, u \in DOMAIN tcall :
          (/\ tcall[t] # NoTCall /\ tcall[u] # NoTCall
           /\ <<tcall[t].source_path, tcall[t].device_path>>
                 # <<tcall[u].source_path, tcall[u].device_path>>)
             => KeyOf(tcall[t]) # KeyOf(tcall[u])
    /\ \A k \in DOMAIN transfers :
          /\ transfers[k].episode_id >= 1
          /\ \E t \in DOMAIN tcall :
                /\ tcall[t] # NoTCall /\ KeyOf(tcall[t]) = k
                /\ transfers[k].device_id = tcall[t].device_path

====
